---- MODULE Spec2Model ----
(***************************************************************************)
(* A model of the 对-construction analyser: the split of a sentence on 对,  *)
(* the segmentation of the text after it, the extraction of the Y-phrase   *)
(* and the predicate (utils/predicate_extractor.py, and the plain          *)
(* heuristic of dui-constructions-updated/predicate_extractor.py), and the *)
(* corpus lookup with its contextual classification                        *)
(* (utils/corpus_lookup.py).                                               *)
(*                                                                         *)
(* A Python str is a sequence of one-character strings; a list of tokens   *)
(* is a sequence of such sequences.  None and the empty string are both    *)
(* falsy in the places the code tests them, and are told apart only where  *)
(* the code does.                                                          *)
(*                                                                         *)
(* String literals are kept to ASCII: a Chinese character is written as    *)
(* the letter u and its four-digit hexadecimal code point, "u5bf9" for 对,  *)
(* and the comment at the end of a line gives the characters of the line.  *)
(*                                                                         *)
(* jieba is a library outside the repository.  What jieba.cut returns for  *)
(* the text after 对 is any list of non-empty tokens that joins to the      *)
(* text, fixed for the sentence; the import of jieba may succeed or fail.  *)
(*                                                                         *)
(* A confidence is a number of hundredths; the one place that computes on  *)
(* confidences as floats, abs(conf - target_conf) < 0.2, is modelled by    *)
(* what the subtraction of the two doubles gives.  A dict is a function,   *)
(* and corpus_keys keeps the order in which the table holds its keys.      *)
(*                                                                         *)
(* The threads of the display layer (app.py) run analyse_sentence step by  *)
(* step; the lists their results refer to are on a heap, lists, so that    *)
(* two results can be told to share a list or not.                         *)
(***************************************************************************)
EXTENDS Naturals, Sequences, FiniteSets, TLC

VARIABLES
    JIEBA_AVAILABLE,  \* whether "import jieba" succeeded when the module was loaded
    corpus_file,      \* the corpus file at construction: whether it exists, and its table
    corpus_data,      \* CorpusLookup.corpus_data, the table read at construction
    corpus_keys,      \* the predicates of the table in the insertion order of the dict
    sentence,         \* the sentence the extraction calls are given
    jieba_cut,        \* what jieba.cut returns for the text after 对 of sentence
    query,            \* the arguments the lookup and classification calls are given
    op,               \* the function called last
    ret,              \* what it returned
    note,             \* what the last call did inside: the branch that set the predicate
    first_call,       \* the first result of extract_dui_parts on the sentence
    requests,         \* the locals of each thread that runs analyse_sentence
    lists             \* the learning_notes list objects the requests have built

vars == <<JIEBA_AVAILABLE, corpus_file, corpus_data, corpus_keys, sentence,
          jieba_cut, query, op, ret, note, first_call, requests, lists>>

-----------------------------------------------------------------------------
(* The lexicon of utils/predicate_extractor.py and the word lists of the   *)
(* plain-heuristic extractor.                                              *)

\* The predicate lexicon, in list order, as set when jieba imports (189 entries).
PREDICATE_WORDS ==
    << <<"u559c","u6b22">>, <<"u8ba8","u538c">>, <<"u5bb3","u6015">>, <<"u62c5","u5fc3">>, <<"u62c5","u5fe7">>,  \* 喜欢 讨厌 害怕 担心 担忧
      <<"u6050","u60e7">>, <<"u5fe7","u8651">>, <<"u6ee1","u610f">>, <<"u4e0d","u6ee1">>, <<"u5931","u671b">>,  \* 恐惧 忧虑 满意 不满 失望
      <<"u7edd","u671b">>, <<"u611f","u6fc0">>, <<"u611f","u6069">>, <<"u6028","u6068">>, <<"u75db","u6068">>,  \* 绝望 感激 感恩 怨恨 痛恨
      <<"u4f69","u670d">>, <<"u656c","u4f69">>, <<"u94a6","u4f69">>, <<"u5d07","u62dc">>, <<"u666f","u4ef0">>,  \* 佩服 敬佩 钦佩 崇拜 景仰
      <<"u60ca","u8bb6">>, <<"u60ca","u559c">>, <<"u8be7","u5f02">>, <<"u6c14","u6124">>, <<"u6124","u6012">>,  \* 惊讶 惊喜 诧异 气愤 愤怒
      <<"u6124","u6168">>, <<"u70ed","u7231">>, <<"u949f","u7231">>, <<"u7737","u604b">>, <<"u601d","u5ff5">>,  \* 愤慨 热爱 钟爱 眷恋 思念
      <<"u4e86","u89e3">>, <<"u7406","u89e3">>, <<"u8ba4","u8bc6">>, <<"u719f","u6089">>, <<"u77e5","u9053">>,  \* 了解 理解 认识 熟悉 知道
      <<"u660e","u767d">>, <<"u61c2">>, <<"u6000","u7591">>, <<"u76f8","u4fe1">>, <<"u4fe1","u4efb">>,  \* 明白 懂 怀疑 相信 信任
      <<"u4fe1","u8d56">>, <<"u4f9d","u8d56">>, <<"u5173","u5fc3">>, <<"u5173","u6ce8">>, <<"u6ce8","u610f">>,  \* 信赖 依赖 关心 关注 注意
      <<"u91cd","u89c6">>, <<"u5728","u610f">>, <<"u5728","u4e4e">>, <<"u7559","u610f">>, <<"u5c0a","u91cd">>,  \* 重视 在意 在乎 留意 尊重
      <<"u5c0a","u656c">>, <<"u656c","u91cd">>, <<"u770b","u91cd">>, <<"u73cd","u89c6">>, <<"u611f","u5230">>,  \* 尊敬 敬重 看重 珍视 感到
      <<"u89c9","u5f97">>, <<"u611f","u89c9">>, <<"u611f","u5174","u8da3">>, <<"u6709","u5174","u8da3">>, <<"u6ca1","u5174","u8da3">>,  \* 觉得 感觉 感兴趣 有兴趣 没兴趣
      <<"u6ca1","u6709","u5174","u8da3">>, <<"u4e0d","u611f","u5174","u8da3">>, <<"u6709","u597d","u611f">>, <<"u6709","u4fe1","u5fc3">>, <<"u6709","u628a","u63e1">>,  \* 没有兴趣 不感兴趣 有好感 有信心 有把握
      <<"u6709","u5370","u8c61">>, <<"u6ca1","u5370","u8c61">>, <<"u6709","u610f","u89c1">>, <<"u6709","u770b","u6cd5">>, <<"u62b1","u6709">>,  \* 有印象 没印象 有意见 有看法 抱有
      <<"u6000","u6709">>, <<"u6301","u6709">>, <<"u53d1","u8868">>, <<"u8868","u6001">>, <<"u7f6e","u8bc4">>,  \* 怀有 持有 发表 表态 置评
      <<"u53d1","u8a00">>, <<"u8bc4","u4ef7">>, <<"u8bc4","u8bba">>, <<"u8bc4","u8ff0">>, <<"u70b9","u8bc4">>,  \* 发言 评价 评论 评述 点评
      <<"u5206","u6790">>, <<"u7814","u7a76">>, <<"u63a2","u8ba8">>, <<"u8003","u5bdf">>, <<"u8c03","u67e5">>,  \* 分析 研究 探讨 考察 调查
      <<"u8c03","u7814">>, <<"u8ba8","u8bba">>, <<"u8fa9","u8bba">>, <<"u4e89","u8bba">>, <<"u5546","u8bae">>,  \* 调研 讨论 辩论 争论 商议
      <<"u5546","u8ba8">>, <<"u62a5","u9053">>, <<"u62a5","u544a">>, <<"u9648","u8ff0">>, <<"u63cf","u8ff0">>,  \* 商讨 报道 报告 陈述 描述
      <<"u9610","u8ff0">>, <<"u8bba","u8ff0">>, <<"u63d0","u51fa">>, <<"u4f5c","u51fa">>, <<"u505a","u51fa">>,  \* 阐述 论述 提出 作出 做出
      <<"u7ed9","u51fa">>, <<"u7ed9","u4e88">>, <<"u8fdb","u884c">>, <<"u5b9e","u884c">>, <<"u5b9e","u65bd">>,  \* 给出 给予 进行 实行 实施
      <<"u6267","u884c">>, <<"u91c7","u53d6">>, <<"u5f00","u5c55">>, <<"u5c55","u5f00">>, <<"u68c0","u67e5">>,  \* 执行 采取 开展 展开 检查
      <<"u76d1","u7763">>, <<"u7ba1","u7406">>, <<"u6574","u987f">>, <<"u6cbb","u7406">>, <<"u5e2e","u52a9">>,  \* 监督 管理 整顿 治理 帮助
      <<"u7167","u987e">>, <<"u4fdd","u62a4">>, <<"u57f9","u8bad">>, <<"u6cbb","u7597">>, <<"u6559","u80b2">>,  \* 照顾 保护 培训 治疗 教育
      <<"u8d1f","u8d23">>, <<"u8d1f">>, <<"u8981","u6c42">>, <<"u65bd","u52a0">>, <<"u5f00","u653e">>,  \* 负责 负 要求 施加 开放
      <<"u53cd","u6297">>, <<"u62b5","u6297">>, <<"u5bf9","u6297">>, <<"u653b","u51fb">>, <<"u8bf4">>,  \* 反抗 抵抗 对抗 攻击 说
      <<"u8bb2">>, <<"u558a">>, <<"u53eb">>, <<"u95ee">>, <<"u7b54">>,  \* 讲 喊 叫 问 答
      <<"u7b11">>, <<"u9a82">>, <<"u543c">>, <<"u56b7">>, <<"u8bf4","u9053">>,  \* 笑 骂 吼 嚷 说道
      <<"u95ee","u9053">>, <<"u7b54","u9053">>, <<"u558a","u9053">>, <<"u7b11","u9053">>, <<"u70b9","u5934">>,  \* 问道 答道 喊道 笑道 点头
      <<"u6447","u5934">>, <<"u6325","u624b">>, <<"u97a0","u8eac">>, <<"u5fae","u7b11">>, <<"u89e3","u91ca">>,  \* 摇头 挥手 鞠躬 微笑 解释
      <<"u4ea4","u4ee3">>, <<"u8868","u793a">>, <<"u70ed","u60c5">>, <<"u51b7","u6de1">>, <<"u51b7","u6f20">>,  \* 交代 表示 热情 冷淡 冷漠
      <<"u53cb","u597d">>, <<"u53cb","u5584">>, <<"u5ba2","u6c14">>, <<"u793c","u8c8c">>, <<"u606d","u656c">>,  \* 友好 友善 客气 礼貌 恭敬
      <<"u7c97","u66b4">>, <<"u86ee","u6a2a">>, <<"u9738","u9053">>, <<"u597d">>, <<"u574f">>,  \* 粗暴 蛮横 霸道 好 坏
      <<"u50cf">>, <<"u5982","u540c">>, <<"u670d","u4ece">>, <<"u987a","u4ece">>, <<"u8a00","u542c","u8ba1","u4ece">>,  \* 像 如同 服从 顺从 言听计从
      <<"u767e","u4f9d","u767e","u987a">>, <<"u6709","u7528">>, <<"u6709","u76ca">>, <<"u6709","u5bb3">>, <<"u6709","u5229">>,  \* 百依百顺 有用 有益 有害 有利
      <<"u4e0d","u5229">>, <<"u6709","u6548">>, <<"u65e0","u6548">>, <<"u91cd","u8981">>, <<"u5fc5","u8981">>,  \* 不利 有效 无效 重要 必要
      <<"u5173","u952e">>, <<"u5371","u9669">>, <<"u516c","u5e73">>, <<"u4e0d","u516c","u5e73">>, <<"u9020","u6210">>,  \* 关键 危险 公平 不公平 造成
      <<"u5bfc","u81f4">>, <<"u5e26","u6765">>, <<"u4ea7","u751f">>, <<"u8d77">> >>  \* 导致 带来 产生 起

\* Degree adverbs (24 entries).
DEGREE_ADVERBS ==
    { <<"u5f88">>, <<"u975e","u5e38">>, <<"u5341","u5206">>, <<"u7279","u522b">>, <<"u6bd4","u8f83">>,  \* 很 非常 十分 特别 比较
      <<"u633a">>, <<"u9887">>, <<"u6781","u5176">>, <<"u76f8","u5f53">>, <<"u683c","u5916">>,  \* 挺 颇 极其 相当 格外
      <<"u66f4">>, <<"u66f4","u52a0">>, <<"u6700">>, <<"u592a">>, <<"u771f">>,  \* 更 更加 最 太 真
      <<"u597d">>, <<"u86ee">>, <<"u8d8a","u6765","u8d8a">>, <<"u6108","u6765","u6108">>, <<"u8d8a","u53d1">>,  \* 好 蛮 越来越 愈来愈 越发
      <<"u5c24","u5176">>, <<"u6781">>, <<"u751a">>, <<"u9887","u4e3a">> }  \* 尤其 极 甚 颇为

\* Negation words (9 entries).
NEGATION_WORDS ==
    { <<"u4e0d">>, <<"u6ca1">>, <<"u6ca1","u6709">>, <<"u672a">>, <<"u975e">>,  \* 不 没 没有 未 非
      <<"u83ab">>, <<"u52ff">>, <<"u522b">>, <<"u65e0">> }  \* 莫 勿 别 无

\* Common nouns, the module-level set (37 entries).
COMMON_NOUNS ==
    { <<"u95ee","u9898">>, <<"u60c5","u51b5">>, <<"u73b0","u8c61">>, <<"u4e8b","u60c5">>, <<"u4e8b","u4ef6">>,  \* 问题 情况 现象 事情 事件
      <<"u7ed3","u679c">>, <<"u539f","u56e0">>, <<"u8fd9","u4e2a">>, <<"u90a3","u4e2a">>, <<"u8fd9","u4e9b">>,  \* 结果 原因 这个 那个 这些
      <<"u90a3","u4e9b">>, <<"u8fd9","u4ef6","u4e8b">>, <<"u90a3","u4ef6","u4e8b">>, <<"u5de5","u4f5c">>, <<"u5b66","u4e60">>,  \* 那些 这件事 那件事 工作 学习
      <<"u751f","u6d3b">>, <<"u5065","u5eb7">>, <<"u7ecf","u6d4e">>, <<"u793e","u4f1a">>, <<"u73af","u5883">>,  \* 生活 健康 经济 社会 环境
      <<"u4f01","u4e1a">>, <<"u516c","u53f8">>, <<"u653f","u5e9c">>, <<"u56fd","u5bb6">>, <<"u4e16","u754c">>,  \* 企业 公司 政府 国家 世界
      <<"u5e02","u573a">>, <<"u8001","u5e08">>, <<"u5b66","u751f">>, <<"u670b","u53cb">>, <<"u540c","u4e8b">>,  \* 市场 老师 学生 朋友 同事
      <<"u9886","u5bfc">>, <<"u5ba2","u4eba">>, <<"u7ecf","u6d4e","u53d1","u5c55">>, <<"u793e","u4f1a","u53d1","u5c55">>, <<"u79d1","u5b66","u6280","u672f">>,  \* 领导 客人 经济发展 社会发展 科学技术
      <<"u610f","u89c1">>, <<"u770b","u6cd5">> }  \* 意见 看法

\* Degree adverbs of the plain-heuristic extractor, in list order (10 entries).
degree_adverbs ==
    << <<"u5f88">>, <<"u975e","u5e38">>, <<"u5341","u5206">>, <<"u7279","u522b">>, <<"u6bd4","u8f83">>,  \* 很 非常 十分 特别 比较
      <<"u633a">>, <<"u9887">>, <<"u6781","u5176">>, <<"u76f8","u5f53">>, <<"u683c","u5916">> >>  \* 挺 颇 极其 相当 格外

\* Verb/adjective starters of the plain-heuristic extractor, in list order (82 entries).
verb_starters ==
    << <<"u53d1","u8868">>, <<"u8868","u6001">>, <<"u7f6e","u8bc4">>, <<"u53d1","u8a00">>, <<"u8868","u793a">>,  \* 发表 表态 置评 发言 表示
      <<"u63d0","u51fa">>, <<"u91c7","u8bbf">>, <<"u8c03","u67e5">>, <<"u7814","u7a76">>, <<"u5206","u6790">>,  \* 提出 采访 调查 研究 分析
      <<"u63a2","u8ba8">>, <<"u8ba8","u8bba">>, <<"u8bc4","u4ef7">>, <<"u8bc4","u8bba">>, <<"u8bc4","u4f30">>,  \* 探讨 讨论 评价 评论 评估
      <<"u62a5","u9053">>, <<"u9648","u8ff0">>, <<"u8fdb","u884c">>, <<"u5b9e","u884c">>, <<"u5b9e","u65bd">>,  \* 报道 陈述 进行 实行 实施
      <<"u6267","u884c">>, <<"u91c7","u53d6">>, <<"u559c","u6b22">>, <<"u8ba8","u538c">>, <<"u5bb3","u6015">>,  \* 执行 采取 喜欢 讨厌 害怕
      <<"u62c5","u5fc3">>, <<"u6ee1","u610f">>, <<"u4e0d","u6ee1">>, <<"u5931","u671b">>, <<"u4e86","u89e3">>,  \* 担心 满意 不满 失望 了解
      <<"u7406","u89e3">>, <<"u8ba4","u8bc6">>, <<"u719f","u6089">>, <<"u77e5","u9053">>, <<"u660e","u767d">>,  \* 理解 认识 熟悉 知道 明白
      <<"u6000","u7591">>, <<"u76f8","u4fe1">>, <<"u4fe1","u4efb">>, <<"u5173","u5fc3">>, <<"u5173","u6ce8">>,  \* 怀疑 相信 信任 关心 关注
      <<"u6ce8","u610f">>, <<"u91cd","u89c6">>, <<"u5c0a","u91cd">>, <<"u5c0a","u656c">>, <<"u611f","u5230">>,  \* 注意 重视 尊重 尊敬 感到
      <<"u89c9","u5f97">>, <<"u68c0","u67e5">>, <<"u76d1","u7763">>, <<"u7ba1","u7406">>, <<"u5e2e","u52a9">>,  \* 觉得 检查 监督 管理 帮助
      <<"u7167","u987e">>, <<"u4fdd","u62a4">>, <<"u57f9","u8bad">>, <<"u6cbb","u7597">>, <<"u8bf4">>,  \* 照顾 保护 培训 治疗 说
      <<"u8bb2">>, <<"u558a">>, <<"u53eb">>, <<"u95ee">>, <<"u7b54">>,  \* 讲 喊 叫 问 答
      <<"u7b11">>, <<"u70b9","u5934">>, <<"u6325","u624b">>, <<"u70ed","u60c5">>, <<"u51b7","u6de1">>,  \* 笑 点头 挥手 热情 冷淡
      <<"u53cb","u597d">>, <<"u5ba2","u6c14">>, <<"u793c","u8c8c">>, <<"u597d">>, <<"u50cf">>,  \* 友好 客气 礼貌 好 像
      <<"u6709","u7528">>, <<"u6709","u76ca">>, <<"u6709","u5bb3">>, <<"u91cd","u8981">>, <<"u5fc5","u8981">>,  \* 有用 有益 有害 重要 必要
      <<"u6709","u6548">>, <<"u516c","u5e73">>, <<"u6709","u5229">>, <<"u4e0d","u5229">>, <<"u9020","u6210">>,  \* 有效 公平 有利 不利 造成
      <<"u5bfc","u81f4">>, <<"u5e26","u6765">> >>  \* 导致 带来

\* The preposition the sentence is split on.
DUI == "u5bf9"  \* 对

\* set(list).
Range(list) == {list[i] : i \in 1..Len(list)}

\* ALL_PREDICATES = set(PREDICATE_WORDS); PREDICATE_WORDS is [] when jieba
\* could not be imported.
ALL_PREDICATES == IF JIEBA_AVAILABLE THEN Range(PREDICATE_WORDS) ELSE {}

\* The characters after which a predicate prefix is not split off.
AFFIXES == {"u7684", "u5730", "u5f97", "u4e86", "u7740", "u8fc7"}  \* 的 地 得 了 着 过

\* The characters str.strip() removes.
WHITESPACE == {" ", "u3000", "\t", "\n"}  \* 　

-----------------------------------------------------------------------------
(* Python's str and list operations.                                       *)

\* s[a:] with a counted from 0.
From(s, a) == SubSeq(s, a + 1, Len(s))

\* s[:b].
UpTo(s, b) == SubSeq(s, 1, IF b < Len(s) THEN b ELSE Len(s))

\* s.startswith(p).
StartsWith(s, p) == Len(p) <= Len(s) /\ SubSeq(s, 1, Len(p)) = p

\* m in s, for strings: m occurs in s as a contiguous substring.
Contains(s, m) ==
    \E i \in 0..(Len(s) - Len(m)) : SubSeq(s, i + 1, i + Len(m)) = m

\* ''.join(ws).
RECURSIVE Join(_)
Join(ws) == IF ws = <<>> THEN <<>> ELSE Head(ws) \o Join(Tail(ws))

\* s.lstrip() and s.rstrip() and s.strip().
RECURSIVE LStrip(_)
LStrip(s) ==
    IF s # <<>> /\ Head(s) \in WHITESPACE THEN LStrip(Tail(s)) ELSE s

RECURSIVE RStrip(_)
RStrip(s) ==
    IF s # <<>> /\ s[Len(s)] \in WHITESPACE
    THEN RStrip(SubSeq(s, 1, Len(s) - 1))
    ELSE s

Strip(s) == RStrip(LStrip(s))

\* sentence.split('对', 1): the text before the first 对 and the text after it.
SplitAt1(s, k) == <<SubSeq(s, 1, k - 1), SubSeq(s, k + 1, Len(s))>>

\* A split on the last 对 instead of the first.
SplitAtLast(s) ==
    SplitAt1(s, CHOOSE i \in 1..Len(s) :
                    s[i] = DUI /\ \A j \in (i + 1)..Len(s) : s[j] # DUI)

Split1(s) ==
    SplitAt1(s, CHOOSE i \in 1..Len(s) :
                    s[i] = DUI /\ \A j \in 1..(i - 1) : s[j] # DUI)

-----------------------------------------------------------------------------
(* Segmentation.                                                           *)

\* Every list of non-empty tokens whose concatenation is t: jieba.cut is a
\* library outside the repository, and all the code relies on is that its
\* tokens, joined, give back the text.
RECURSIVE Segmentations(_)
Segmentations(t) ==
    IF t = <<>>
    THEN {<<>>}
    ELSE UNION {{<<SubSeq(t, 1, k)>> \o r :
                    r \in Segmentations(SubSeq(t, k + 1, Len(t)))} :
                k \in 1..Len(t)}

\* The greatest number of a non-empty set of numbers.
Greatest(S) == CHOOSE a \in S : \A b \in S : b <= a

\* The longest length tried at a position: range(4, 0, -1).
MaxMatch == 4

\* _simple_segment from position i (counted from 0) on.
RECURSIVE SimpleSegmentFrom(_, _)
\* One round that emits an empty token before the single character, as a
\* round that leaves the position where it was.
SegmentAtStalling(text, i, lengths) ==
    IF lengths = {}
    THEN <<<<>>, <<text[i + 1]>>>> \o SimpleSegmentFrom(text, i + 1)
    ELSE <<SubSeq(text, i + 1, i + Greatest(lengths))>>
             \o SimpleSegmentFrom(text, i + Greatest(lengths))

\* One round that emits the two characters at the position as one token when
\* no length matches and two characters are left.
SegmentAtPairs(text, i, lengths) ==
    IF lengths = {}
    THEN <<SubSeq(text, i + 1, IF i + 2 <= Len(text) THEN i + 2 ELSE i + 1)>>
             \o SimpleSegmentFrom(text, IF i + 2 <= Len(text) THEN i + 2 ELSE i + 1)
    ELSE <<SubSeq(text, i + 1, i + Greatest(lengths))>>
             \o SimpleSegmentFrom(text, i + Greatest(lengths))

\* One round of the while loop at position i, for the lengths that match
\* there: the longest is taken, and a single character when none matches.
SegmentAt(text, i, lengths) ==
    IF lengths = {}
    THEN <<<<text[i + 1]>>>> \o SimpleSegmentFrom(text, i + 1)
    ELSE <<SubSeq(text, i + 1, i + Greatest(lengths))>>
             \o SimpleSegmentFrom(text, i + Greatest(lengths))

SimpleSegmentFrom(text, i) ==
    IF i >= Len(text)
    THEN <<>>
    ELSE SegmentAt(text, i,
             {length \in 1..MaxMatch :
                 /\ i + length <= Len(text)
                 /\ \/ SubSeq(text, i + 1, i + length) \in ALL_PREDICATES
                    \/ SubSeq(text, i + 1, i + length) \in DEGREE_ADVERBS})

_simple_segment(text) == SimpleSegmentFrom(text, 0)

\* segment_sentence, for the text after 对 of the sentence.
segment_sentence(text) ==
    IF JIEBA_AVAILABLE THEN jieba_cut ELSE _simple_segment(text)

-----------------------------------------------------------------------------
(* utils/predicate_extractor.py: the predicate inside a token.             *)

\* The iteration orders of the set ALL_PREDICATES a call may see: Python
\* fixes none, so the model takes the list order and its reverse, which
\* between them put every pair of predicates both ways round.
IterationOrders == {"listed", "reversed"}

\* The place of p in the iteration of the set built from the list.
Position(list, p, order) ==
    LET i == CHOOSE k \in 1..Len(list) : list[k] = p
    IN  IF order = "listed" THEN i ELSE Len(list) - i

\* The place of predicate p in the iteration of ALL_PREDICATES.
Rank(p, order) == Position(PREDICATE_WORDS, p, order)

\* The iteration order alone, as when the predicates are not sorted by
\* length before the loop.
IterationBefore(p, q, order) == Rank(p, order) < Rank(q, order)

\* p comes before q in sorted(ALL_PREDICATES, key=len, reverse=True): longer
\* first, and, the sort being stable, equal lengths in iteration order.
SortsBefore(p, q, order) ==
    \/ Len(p) > Len(q)
    \/ Len(p) = Len(q) /\ Rank(p, order) < Rank(q, order)

\* The first element of the sorted list that is in M; <<>> when there is none.
FirstSorted(M, order) ==
    IF M = {}
    THEN <<>>
    ELSE CHOOSE p \in M : \A q \in M \ {p} : SortsBefore(p, q, order)

\* a or b, for strings: a unless it is empty.
OrElse(a, b) == IF a # <<>> THEN a ELSE b

\* The negation character followed by pred, when a pred was found.
WithNegation(negation, pred) == IF pred # <<>> THEN negation \o pred ELSE <<>>

\* _find_predicate_in_word, the block for a word that starts with 不, 没 or
\* 未: the word when the rest is a predicate, else the negation character and
\* the first predicate of the sorted list the rest starts with.
NegatedPredicate(word, preds, order) ==
    IF word # <<>> /\ word[1] \in {"u4e0d", "u6ca1", "u672a"}  \* 不 没 未
    THEN IF From(word, 1) \in preds
         THEN word
         ELSE WithNegation(UpTo(word, 1),
                  FirstSorted({p \in preds : StartsWith(From(word, 1), p)}, order))
    ELSE <<>>

\* The last loop without the test of the character behind the predicate.
EmbeddedBeforeAffix(word, preds, order) ==
    FirstSorted({p \in preds :
                    /\ StartsWith(word, p)
                    /\ Len(word) > Len(p)
                    /\ word \notin COMMON_NOUNS},
                order)

\* _find_predicate_in_word, the last loop: the first predicate of the sorted
\* list that the word starts with, is shorter than the word and is not
\* followed by an affix.
EmbeddedPredicate(word, preds, order) ==
    FirstSorted({p \in preds :
                    /\ StartsWith(word, p)
                    /\ Len(word) > Len(p)
                    /\ From(word, Len(p))[1] \notin AFFIXES
                    /\ word \notin COMMON_NOUNS},
                order)

\* _find_predicate_in_word with ALL_PREDICATES read once.
FindAmong(word, preds, order) ==
    IF word \in COMMON_NOUNS THEN <<>>
    ELSE IF word \in preds THEN word
    ELSE OrElse(NegatedPredicate(word, preds, order),
                EmbeddedPredicate(word, preds, order))

\* _find_predicate_in_word; None is <<>> (the callers test truthiness only,
\* and no branch returns an empty string).
_find_predicate_in_word(word, order) == FindAmong(word, ALL_PREDICATES, order)

-----------------------------------------------------------------------------
(* utils/predicate_extractor.py: the Y-phrase and the predicate.           *)

\* The text after the predicate without the rest of the token the predicate
\* was found in: ''.join(words[j+1:]) alone.
AfterFollowingOnly(word, found_pred, following) == Join(following)

\* The text after the predicate with the whole token put in front instead of
\* its rest.
AfterWholeWord(word, found_pred, following) == Join(<<word>> \o following)

\* after_parts = [remaining_of_word] if remaining_of_word else [], extended
\* by the following words and joined.
AfterParts(word, found_pred, following) ==
    Join((IF From(word, Len(found_pred)) # <<>>
          THEN <<From(word, Len(found_pred))>>
          ELSE <<>>)
         \o following)

\* The body of the loop over j behind a degree adverb, for the candidate at
\* index j (counted from 0) and what _find_predicate_in_word found in it.
RECURSIVE LookAfterAdverb(_, _, _)
Candidate(words, j, order, found_pred) ==
    IF found_pred # <<>>
    THEN [predicate |-> found_pred,
          after_pred |-> AfterParts(words[j + 1], found_pred, From(words, j + 1))]
    ELSE IF words[j + 1] \notin DEGREE_ADVERBS /\ words[j + 1] \notin NEGATION_WORDS
    THEN [predicate |-> words[j + 1], after_pred |-> Join(From(words, j + 1))]
    ELSE LookAfterAdverb(words, j + 1, order)

\* The loop over j behind a degree adverb, from index j on.
LookAfterAdverb(words, j, order) ==
    IF j >= Len(words)
    THEN [predicate |-> <<>>, after_pred |-> <<>>]
    ELSE Candidate(words, j, order, _find_predicate_in_word(words[j + 1], order))

\* The degree-adverb branch at index i: the Y-phrase ends before the adverb,
\* and the scan stops whether or not a predicate follows.
AdverbBranch(words, i, after) ==
    [y_parts |-> UpTo(words, i),
     predicate |-> after.predicate,
     after_pred |-> after.after_pred,
     branch |-> IF after.predicate # <<>> THEN "adverb" ELSE "none"]

\* The negation branch at index i, for what _find_predicate_in_word found in
\* the next word (<<>> when the word at i is no negation word or is the last).
RECURSIVE ScanWords(_, _, _)
NegationBranch(words, i, order, found_pred) ==
    IF found_pred # <<>>
    THEN [y_parts |-> UpTo(words, i),
          predicate |-> words[i + 1] \o found_pred,
          after_pred |-> AfterParts(words[i + 2], found_pred, From(words, i + 2)),
          branch |-> "negation"]
    ELSE ScanWords(words, i + 1, order)

\* The predicate-token branch at index i, for what _find_predicate_in_word
\* found in the word, and the negation branch after it.
TokenBranch(words, i, order, found_pred) ==
    IF found_pred # <<>>
    THEN [y_parts |-> UpTo(words, i),
          predicate |-> found_pred,
          after_pred |-> AfterParts(words[i + 1], found_pred, From(words, i + 1)),
          branch |-> "token"]
    ELSE NegationBranch(words, i, order,
             IF words[i + 1] \in NEGATION_WORDS /\ i + 1 < Len(words)
             THEN _find_predicate_in_word(words[i + 2], order)
             ELSE <<>>)

\* The while loop over the tokens, from index i (counted from 0) on.
ScanWords(words, i, order) ==
    IF i >= Len(words)
    THEN [y_parts |-> <<>>, predicate |-> <<>>, after_pred |-> <<>>, branch |-> "none"]
    ELSE IF words[i + 1] \in DEGREE_ADVERBS
    THEN AdverbBranch(words, i, LookAfterAdverb(words, i + 1, order))
    ELSE TokenBranch(words, i, order, _find_predicate_in_word(words[i + 1], order))

\* The least number of a non-empty set of numbers.
Least(S) == CHOOSE a \in S : \A b \in S : a <= b

\* The tokens the fallback may take as the predicate, by index from 0.
FallbackIndexes(words) ==
    {idx \in 0..(Len(words) - 1) :
        /\ Len(words[idx + 1]) >= 2
        /\ words[idx + 1] \notin DEGREE_ADVERBS
        /\ words[idx + 1] \notin {<<"u7684">>, <<"u5730">>, <<"u5f97">>}  \* 的 地 得
        /\ words[idx + 1][Len(words[idx + 1])] \notin {"u4eba", "u8005", "u4eec"}}  \* 人 者 们

\* The fallback taken at index idx.
FallbackAt(words, idx) ==
    [y_phrase |-> Join(UpTo(words, idx)),
     predicate |-> words[idx + 1],
     after_pred |-> Join(From(words, idx + 1)),
     branch |-> "fallback"]

\* The end of _extract_y_and_predicate: the fallback when the scan left the
\* predicate empty, and the join of the Y parts.
Fallback(words, scan, candidates) ==
    IF scan.predicate = <<>> /\ candidates # {}
    THEN FallbackAt(words, Least(candidates))
    ELSE [y_phrase |-> Join(scan.y_parts),
          predicate |-> scan.predicate,
          after_pred |-> scan.after_pred,
          branch |-> scan.branch]

\* _extract_y_and_predicate(words, original_text); original_text is not read.
\* The field branch tells which part set the predicate and is not returned
\* by the code.
_extract_y_and_predicate(words, order) ==
    IF words = <<>>
    THEN [y_phrase |-> <<>>, predicate |-> <<>>, after_pred |-> <<>>, branch |-> "none"]
    ELSE Fallback(words, ScanWords(words, 0, order), FallbackIndexes(words))

\* A record that already holds the sentence as the text before 对, as
\* sentence.split('对', 1)[0] is when the test for 对 is left out.
UnsplitParts ==
    [before_dui |-> sentence, y_phrase |-> <<>>, predicate |-> <<>>,
     after_predicate |-> <<>>, full_after_dui |-> <<>>]

\* The record extract_dui_parts starts from.
EmptyParts ==
    [before_dui |-> <<>>, y_phrase |-> <<>>, predicate |-> <<>>,
     after_predicate |-> <<>>, full_after_dui |-> <<>>]

\* Whether '对' is in the sentence.
HasDui(s) == \E i \in 1..Len(s) : s[i] = DUI

\* The record extract_dui_parts returns for the two parts of the split and
\* what _extract_y_and_predicate found.
PartsOf(parts, found) ==
    [before_dui |-> parts[1],
     y_phrase |-> found.y_phrase,
     predicate |-> found.predicate,
     after_predicate |-> found.after_pred,
     full_after_dui |-> parts[2]]

\* extract_dui_parts of utils/predicate_extractor.py, for a sentence with 对,
\* with the branch that set the predicate beside the record it returns.
ExtractFrom(parts, found) ==
    [parts |-> PartsOf(parts, found), branch |-> found.branch]

ExtractTraced(s, order) ==
    IF ~HasDui(s)
    THEN [parts |-> EmptyParts, branch |-> "none"]
    ELSE ExtractFrom(Split1(s),
             _extract_y_and_predicate(segment_sentence(Split1(s)[2]), order))

\* extract_dui_parts of utils/predicate_extractor.py.
extract_dui_parts(s, order) == ExtractTraced(s, order).parts

-----------------------------------------------------------------------------
(* dui-constructions-updated/predicate_extractor.py: the plain heuristic.  *)

\* Some element of the list is a prefix of s.
AnyStartsWith(list, s) == \E k \in 1..Len(list) : StartsWith(s, list[k])

\* The characters a Y-phrase typically ends with.
Y_ENDINGS == {"u6b64", "u4ed6", "u5979", "u5b83", "u8fd9", "u90a3", "u4eba", "u4eec", "u8005"}  \* 此 他 她 它 这 那 人 们 者

\* The positions (from 0) at which a degree adverb or a verb starter begins.
Starts(after_dui) ==
    {i \in 0..(Len(after_dui) - 1) :
        \/ AnyStartsWith(degree_adverbs, From(after_dui, i))
        \/ AnyStartsWith(verb_starters, From(after_dui, i))}

\* The first loop of _split_y_and_predicate: predicate_start is the first
\* such position, and stays 0 when there is none.
FirstOf(starts) == IF starts = {} THEN 0 ELSE Least(starts)

\* The lengths of at most 6 characters at which a Y ending ends.
YEnds(after_dui) ==
    {i \in 1..(IF Len(after_dui) < 6 THEN Len(after_dui) ELSE 6) :
        after_dui[i] \in Y_ENDINGS}

\* The end of the Y-phrase when the first loop left predicate_start at 0:
\* the longest prefix of at most 6 characters that ends in a Y ending, and
\* by default the first 2 characters.
HeuristicYEnd(after_dui, ends) ==
    IF ends # {}
    THEN Greatest(ends)
    ELSE IF Len(after_dui) < 2 THEN Len(after_dui) ELSE 2

\* y_end, which predicate_start always equals.
YEnd(after_dui, first) ==
    IF first = 0 THEN HeuristicYEnd(after_dui, YEnds(after_dui)) ELSE first

\* The predicate: the first verb starter of the list the remaining text
\* starts with, else its first 2 characters.
PredicateOf(remaining, verbs) ==
    IF verbs # {}
    THEN verb_starters[Least(verbs)]
    ELSE IF Len(remaining) >= 2 THEN UpTo(remaining, 2) ELSE remaining

\* The three strings _split_y_and_predicate returns.
SplitResult(y_phrase, remaining, predicate) ==
    [y_phrase |-> y_phrase,
     predicate |-> predicate,
     after_pred |-> From(remaining, Len(predicate))]

\* The end of _split_y_and_predicate, from the stripped strings on.
TakePredicate(y_phrase, remaining) ==
    SplitResult(y_phrase, remaining,
        PredicateOf(remaining,
            {k \in 1..Len(verb_starters) : StartsWith(remaining, verb_starters[k])}))

\* _split_y_and_predicate from y_end on.
SplitAt(after_dui, y_end) ==
    TakePredicate(Strip(UpTo(after_dui, y_end)), Strip(From(after_dui, y_end)))

\* _split_y_and_predicate.
_split_y_and_predicate(after_dui) ==
    SplitAt(after_dui, YEnd(after_dui, FirstOf(Starts(after_dui))))

\* extract_dui_parts of the plain-heuristic extractor.
plain_extract_dui_parts(s) ==
    IF ~HasDui(s)
    THEN EmptyParts
    ELSE PartsOf(Split1(s), _split_y_and_predicate(Split1(s)[2]))

-----------------------------------------------------------------------------
(* utils/corpus_lookup.py: the six types, the override rules, the lookup   *)
(* and the contextual analysis.                                            *)

\* The six category codes, in the order TYPE_NAMES lists them.
TYPE_CODES == {"DA", "SI", "MS", "ABT", "EVAL", "DISP"}

\* TYPE_NAMES: the full name and the Chinese name of each code.
TYPE_NAMES ==
    ("DA" :> <<"Directed-Action", "u6307u5411u52a8u4f5c">>) @@  \* 指向动作
    ("SI" :> <<"Scoped-Intervention", "u8303u56f4u5e72u9884">>) @@  \* 范围干预
    ("MS" :> <<"Mental-State", "u5fc3u7406u72b6u6001">>) @@  \* 心理状态
    ("ABT" :> <<"Aboutness", "u8bbau9898u5173u6d89">>) @@  \* 论题关涉
    ("EVAL" :> <<"Evaluation", "u8bc4u4ef7u6548u679c">>) @@  \* 评价效果
    ("DISP" :> <<"Disposition", "u6001u5ea6u884cu4e3a">>)  \* 态度行为

\* TYPE_EXPLANATIONS: why a predicate is classified each way, and the test
\* question of each category.
TYPE_EXPLANATIONS ==
    ("DA" :>
       [description |-> "The speaker/actor directs an action TO a person or recipient.",
        y_role |-> "Y is the recipient who receives the action.",
        test |-> "Ask: Is X doing something TO/AT Y?",
        examples |-> <<"u5bf9u4ed6u8bf4 (speak TO him)",  \* 对他说 (speak TO him)
                       "u5bf9u89c2u4f17u97a0u8eac (bow TO the audience)">>]) @@  \* 对观众鞠躬 (bow TO the audience)
    ("SI" :>
       [description |-> "X performs a bounded intervention ON Y. Y is affected or changed.",
        y_role |-> "Y is the scope or patient that undergoes change.",
        test |-> "Ask: Is X intervening ON Y? Is Y affected?",
        examples |-> <<"u5bf9u4f01u4e1au8fdbu884cu68c0u67e5 (conduct inspection ON enterprises)",  \* 对企业进行检查 (conduct inspection ON enterprises)
                       "u5bf9u4ed6u8fdbu884cu6cbbu7597 (provide treatment TO him)">>]) @@  \* 对他进行治疗 (provide treatment TO him)
    ("MS" :>
       [description |-> "Y triggers an internal psychological state IN X.",
        y_role |-> "Y is the stimulus that causes X's mental/emotional state.",
        test |-> "Ask: Does Y trigger a feeling/thought IN X?",
        examples |-> <<"u5bf9u6b64u62c5u5fc3 (worried ABOUT this)",  \* 对此担心 (worried ABOUT this)
                       "u5bf9u5979u6709u597du611f (have good feelings TOWARD her)">>]) @@  \* 对她有好感 (have good feelings TOWARD her)
    ("ABT" :>
       [description |-> "X produces discourse (speech, writing, analysis) ABOUT Y.",
        y_role |-> "Y is the topic of X's discourse. Y is not affected.",
        test |-> "Ask: Does X produce observable output ABOUT Y?",
        examples |-> <<"u5bf9u6b64u53d1u8868u610fu89c1 (express opinions ABOUT this)",  \* 对此发表意见 (express opinions ABOUT this)
                       "u5bf9u95eeu9898u8fdbu884cu5206u6790 (analyse the problem)">>]) @@  \* 对问题进行分析 (analyse the problem)
    ("EVAL" :>
       [description |-> "X is evaluated as good/bad/useful/harmful FOR Y.",
        y_role |-> "Y is the beneficiary or perspective from which X is judged.",
        test |-> "Ask: Is X good/bad/useful FOR Y?",
        examples |-> <<"u5bf9u5065u5eb7u6709u76ca (beneficial FOR health)",  \* 对健康有益 (beneficial FOR health)
                       "u5bf9u5b66u751fu91cdu8981 (important FOR students)">>]) @@  \* 对学生重要 (important FOR students)
    ("DISP" :>
       [description |-> "X exhibits a behavioural manner or social attitude TOWARD Y.",
        y_role |-> "Y experiences X's manner of treatment.",
        test |-> "Ask: How is X treating/behaving toward Y?",
        examples |-> <<"u5bf9u4ed6u70edu60c5 (warm TOWARD him)",  \* 对他热情 (warm TOWARD him)
                       "u5bf9u5ba2u4ebau5ba2u6c14 (polite TOWARD guests)">>])  \* 对客人客气 (polite TOWARD guests)

\* CONTEXT_OVERRIDES: per predicate, the marker lists and the explanation.  A
\* list the rule does not define is <<>>, as override.get(key, []) reads it.
CONTEXT_OVERRIDES ==
    (<<"u53d1","u8868">> :>  \* 发表
       [ABT_markers |-> <<<<"u610f","u89c1">>, <<"u770b","u6cd5">>, <<"u89c2","u70b9">>, <<"u58f0","u660e">>, <<"u8bb2","u8bdd">>, <<"u8bc4","u8bba">>>>,  \* 意见 看法 观点 声明 讲话 评论
        MS_markers |-> <<>>,
        EVAL_markers |-> <<>>,
        DA_markers |-> <<<<"u5fae","u7b11">>, <<"u7b11","u5bb9">>, <<"u5584","u610f">>>>,  \* 微笑 笑容 善意
        explanation |-> "u53d1u8868 is ABT when producing discourse (u610fu89c1/u770bu6cd5), but DA when directing expressions TO someone."]) @@  \* 发表 is ABT when producing discourse (意见/看法), but DA when directing expressions TO someone.
    (<<"u8868","u793a">> :>  \* 表示
       [ABT_markers |-> <<<<"u5173","u5207">>, <<"u9057","u61be">>, <<"u4e0d","u6ee1">>, <<"u6b22","u8fce">>, <<"u652f","u6301">>, <<"u53cd","u5bf9">>>>,  \* 关切 遗憾 不满 欢迎 支持 反对
        MS_markers |-> <<>>,
        EVAL_markers |-> <<>>,
        DA_markers |-> <<>>,
        explanation |-> "u8868u793a is typically ABT when expressing stance ABOUT something."]) @@  \* 表示 is typically ABT when expressing stance ABOUT something.
    (<<"u6709">> :>  \* 有
       [ABT_markers |-> <<<<"u610f","u89c1">>, <<"u770b","u6cd5">>, <<"u7814","u7a76">>>>,  \* 意见 看法 研究
        MS_markers |-> <<<<"u5174","u8da3">>, <<"u4fe1","u5fc3">>, <<"u628a","u63e1">>, <<"u597d","u611f">>, <<"u5370","u8c61">>, <<"u4e86","u89e3">>, <<"u611f","u60c5">>>>,  \* 兴趣 信心 把握 好感 印象 了解 感情
        EVAL_markers |-> <<<<"u76ca">>, <<"u5bb3">>, <<"u5229">>, <<"u7528">>, <<"u6548">>, <<"u5e2e","u52a9">>, <<"u4f5c","u7528">>, <<"u5f71","u54cd">>>>,  \* 益 害 利 用 效 帮助 作用 影响
        DA_markers |-> <<>>,
        explanation |-> "u6709 varies by complement: u6709+psychologicalu2192MS, u6709+effectu2192EVAL, u6709+opinionu2192ABT."])  \* 有 varies by complement: 有+psychological→MS, 有+effect→EVAL, 有+opinion→ABT.

\* Python's None, as a return value.
None == [none |-> TRUE]

\* The copy of a table entry lookup returns: the names of the dominant type
\* and that type's explanation are added to the copy.
Annotated(data) ==
    [k \in DOMAIN data
            \cup (IF data.dominant_type \in DOMAIN TYPE_NAMES
                  THEN {"dominant_name", "dominant_chinese"}
                  ELSE {})
            \cup (IF data.dominant_type \in DOMAIN TYPE_EXPLANATIONS
                  THEN {"explanation"}
                  ELSE {}) |->
        IF k = "dominant_name" THEN TYPE_NAMES[data.dominant_type][1]
        ELSE IF k = "dominant_chinese" THEN TYPE_NAMES[data.dominant_type][2]
        ELSE IF k = "explanation" THEN TYPE_EXPLANATIONS[data.dominant_type]
        ELSE data[k]]

\* CorpusLookup.lookup.
lookup(predicate) ==
    IF predicate \in DOMAIN corpus_data
    THEN Annotated(corpus_data[predicate])
    ELSE None

\* The stored entry after lookup wrote the added keys into the very dict of
\* the table.
StoredEntryAliased(data, annotated) == annotated

\* The stored entry after lookup: data is a copy of the entry, so the keys
\* lookup adds are written to the copy and the entry is as it was.
StoredEntry(data, annotated) == data

\* The table after lookup(predicate).
StoredAfterLookup(predicate) ==
    IF predicate \in DOMAIN corpus_data
    THEN [corpus_data EXCEPT
             ![predicate] = StoredEntry(corpus_data[predicate],
                                        Annotated(corpus_data[predicate]))]
    ELSE corpus_data

\* The rule set of the first key of CONTEXT_OVERRIDES the predicate starts
\* with, as when the key is matched with startswith.
OverrideForPrefix(predicate) ==
    IF \E key \in DOMAIN CONTEXT_OVERRIDES : StartsWith(predicate, key)
    THEN CONTEXT_OVERRIDES[CHOOSE key \in DOMAIN CONTEXT_OVERRIDES :
                               StartsWith(predicate, key)]
    ELSE None

\* The rule set the override cascade runs for a predicate: the entry of
\* CONTEXT_OVERRIDES the predicate is a key of, and None when it is no key.
OverrideFor(predicate) ==
    IF predicate \in DOMAIN CONTEXT_OVERRIDES
    THEN CONTEXT_OVERRIDES[predicate]
    ELSE None

\* The markers of the list that are in the context, by index.
Hits(markers, context_text) ==
    {k \in 1..Len(markers) : Contains(context_text, markers[k])}

\* The first marker of the list that is in the context, and <<>> when none is.
FirstHit(markers, hits) == IF hits = {} THEN <<>> ELSE markers[Least(hits)]

FirstMarker(markers, context_text) == FirstHit(markers, Hits(markers, context_text))

\* What a marker list that matched sets: the type, the marker named in the
\* reason, and the rule's explanation appended to the learning notes.
Matched(type, marker, override) ==
    [type |-> type, marker |-> marker, notes |-> <<override.explanation>>]

\* The marker lists tested in the order 有's rule set lists them: MS, then
\* EVAL, then ABT.
CascadeOrderAsListed(override, abt, ms, eval) ==
    IF ms # <<>> THEN Matched("MS", ms, override)
    ELSE IF eval # <<>> THEN Matched("EVAL", eval, override)
    ELSE IF abt # <<>> THEN Matched("ABT", abt, override)
    ELSE [type |-> "None", marker |-> <<>>, notes |-> <<>>]

\* The marker lists in the order the code tests them: ABT, then MS when no
\* type is set yet, then EVAL when none is set yet.
CascadeOrder(override, abt, ms, eval) ==
    IF abt # <<>> THEN Matched("ABT", abt, override)
    ELSE IF ms # <<>> THEN Matched("MS", ms, override)
    ELSE IF eval # <<>> THEN Matched("EVAL", eval, override)
    ELSE [type |-> "None", marker |-> <<>>, notes |-> <<>>]

\* The override cascade for a rule set; the type is "None" when there is no
\* rule set or no marker is in the context.
Cascade(override, context_text) ==
    IF override = None
    THEN [type |-> "None", marker |-> <<>>, notes |-> <<>>]
    ELSE CascadeOrder(override,
             FirstMarker(override.ABT_markers, context_text),
             FirstMarker(override.MS_markers, context_text),
             FirstMarker(override.EVAL_markers, context_text))

OverrideCascade(predicate, context_text) ==
    Cascade(OverrideFor(predicate), context_text)

\* contextual_type with the corpus asked first: the corpus-dominant type when
\* the predicate was found, else the override's type.
ContextualTypeCorpusFirst(found, cascade) ==
    IF found # None THEN found.dominant_type
    ELSE cascade.type

\* contextual_type: the override's type, else the corpus-dominant type when
\* the predicate was found, else None ("None").
ContextualType(found, cascade) ==
    IF cascade.type # "None" THEN cascade.type
    ELSE IF found # None THEN found.dominant_type
    ELSE "None"

\* contextual_reason: the marker, or the confidence, its text is formatted
\* from.
ContextualReason(predicate, found, cascade) ==
    IF cascade.type # "None" THEN <<"Contains", cascade.marker, cascade.type>>
    ELSE IF found # None THEN <<"Based on corpus", found.confidence, predicate>>
    ELSE <<"None">>

\* The record with the test question put before the notes of the cascade.
AnalysisQuestionFirst(predicate, found, cascade, contextual_type) ==
    [predicate |-> predicate,
     corpus_found |-> found # None,
     corpus_data |-> IF found # None THEN found ELSE [k \in {} |-> k],
     contextual_type |-> contextual_type,
     contextual_reason |-> ContextualReason(predicate, found, cascade),
     learning_notes |->
         (IF contextual_type \in DOMAIN TYPE_EXPLANATIONS
          THEN <<TYPE_EXPLANATIONS[contextual_type].test>>
          ELSE <<>>)
             \o cascade.notes]

\* The record analyse_in_context returns; the test question of the resolved
\* type is appended to the learning notes last.
Analysis(predicate, found, cascade, contextual_type) ==
    [predicate |-> predicate,
     corpus_found |-> found # None,
     corpus_data |-> IF found # None THEN found ELSE [k \in {} |-> k],
     contextual_type |-> contextual_type,
     contextual_reason |-> ContextualReason(predicate, found, cascade),
     learning_notes |->
         cascade.notes
             \o (IF contextual_type \in DOMAIN TYPE_EXPLANATIONS
                 THEN <<TYPE_EXPLANATIONS[contextual_type].test>>
                 ELSE <<>>)]

Analyse(predicate, found, cascade) ==
    Analysis(predicate, found, cascade, ContextualType(found, cascade))

\* CorpusLookup.analyse_in_context.
analyse_in_context(predicate, complement, y_phrase, full_sentence) ==
    Analyse(predicate, lookup(predicate),
            OverrideCascade(predicate, complement \o y_phrase \o full_sentence))


-----------------------------------------------------------------------------
(* get_similar_predicates and get_distribution_text of CorpusLookup.       *)

\* dict.get(key, default).
Get(data, key, default) == IF key \in DOMAIN data THEN data[key] ELSE default

\* The pairs of confidences, in hundredths, that are 0.2 apart as decimals
\* and whose difference as IEEE doubles is below the double 0.2: the
\* subtraction rounds, so 0.7 - 0.5 is 0.19999999999999996 while 0.5 - 0.3 is
\* 0.2 and 0.9 - 0.7 is 0.20000000000000007.
ROUNDS_BELOW ==
    {<<1, 21>>, <<4, 24>>, <<9, 29>>, <<10, 30>>, <<15, 35>>, <<16, 36>>,
     <<17, 37>>, <<21, 1>>, <<21, 41>>, <<22, 42>>, <<23, 43>>, <<24, 4>>,
     <<27, 47>>, <<28, 48>>, <<29, 9>>, <<30, 10>>, <<35, 15>>, <<36, 16>>,
     <<37, 17>>, <<37, 57>>, <<38, 58>>, <<39, 59>>, <<40, 60>>, <<41, 21>>,
     <<42, 22>>, <<43, 23>>, <<47, 27>>, <<48, 28>>, <<49, 69>>, <<50, 70>>,
     <<51, 71>>, <<52, 72>>, <<53, 73>>, <<54, 74>>, <<55, 75>>, <<56, 76>>,
     <<57, 37>>, <<58, 38>>, <<59, 39>>, <<60, 40>>, <<62, 82>>, <<63, 83>>,
     <<64, 84>>, <<65, 85>>, <<66, 86>>, <<67, 87>>, <<68, 88>>, <<69, 49>>,
     <<70, 50>>, <<71, 51>>, <<72, 52>>, <<73, 53>>, <<74, 54>>, <<74, 94>>,
     <<75, 55>>, <<75, 95>>, <<76, 56>>, <<76, 96>>, <<77, 97>>, <<78, 98>>,
     <<79, 99>>, <<80, 100>>, <<82, 62>>, <<83, 63>>, <<84, 64>>, <<85, 65>>,
     <<86, 66>>, <<87, 67>>, <<88, 68>>, <<94, 74>>, <<95, 75>>, <<96, 76>>,
     <<97, 77>>, <<98, 78>>, <<99, 79>>, <<100, 80>>}

Distance(a, b) == IF a >= b THEN a - b ELSE b - a

\* abs(conf - target_conf) < 0.2 on doubles, for confidences in hundredths.
CloseConfidence(conf, target_conf) ==
    \/ Distance(conf, target_conf) < 20
    \/ Distance(conf, target_conf) = 20 /\ <<conf, target_conf>> \in ROUNDS_BELOW

\* list.sort(key=..., reverse=True): the item of the greater key first, and
\* items of equal keys in the order they had.
SortRank(keys, i) ==
    Cardinality({j \in DOMAIN keys :
                    keys[j] > keys[i] \/ (keys[j] = keys[i] /\ j < i)}) + 1

SortDescendingBy(items, keys) ==
    [k \in DOMAIN items |-> items[CHOOSE i \in DOMAIN keys : SortRank(keys, i) = k]]

\* similar[:limit], for a limit that is not negative.
Slice(items, limit) ==
    SubSeq(items, 1, IF limit < Len(items) THEN limit ELSE Len(items))

\* The list the loop over corpus_data.items() builds, in insertion order.
SimilarTo(predicate, target_type, target_conf) ==
    LET Keep(pred) ==
            /\ pred # predicate
            /\ Get(corpus_data[pred], "dominant_type", None) = target_type
            /\ CloseConfidence(Get(corpus_data[pred], "confidence", 0), target_conf)
        kept == SelectSeq(corpus_keys, Keep)
    IN  [k \in DOMAIN kept |->
            <<kept[k], target_type, Get(corpus_data[kept[k]], "total", 0)>>]

\* similar.sort(key=lambda x: x[2], reverse=True).
SortedByTotal(similar) ==
    SortDescendingBy(similar, [k \in DOMAIN similar |-> similar[k][3]])

\* "not data": lookup returned None, or a dict without keys.
NotData(data) == data = None \/ DOMAIN data = {}

\* CorpusLookup.get_similar_predicates.
get_similar_predicates(predicate, limit) ==
    IF NotData(lookup(predicate))
    THEN <<>>
    ELSE Slice(SortedByTotal(SimilarTo(predicate,
                   Get(lookup(predicate), "dominant_type", None),
                   Get(lookup(predicate), "confidence", 0))), limit)

\* The lines for the types of the distribution, the greater percentage
\* first, without the types whose percentage is 0: the names of the type,
\* its percentage and its count.  The distribution is the sequence of the
\* items of the dict.
DistributionLines(data, dist) ==
    LET sorted_dist == SortDescendingBy(dist, [k \in DOMAIN dist |-> dist[k][2]])
        Positive(item) == item[2] > 0
        shown == SelectSeq(sorted_dist, Positive)
        Name(code, k) == IF code \in DOMAIN TYPE_NAMES
                         THEN TYPE_NAMES[code][k]
                         ELSE IF k = 1 THEN code ELSE <<>>
    IN  [k \in DOMAIN shown |->
            <<Name(shown[k][1], 1), Name(shown[k][1], 2), shown[k][2],
              Get(Get(data, "types", <<>>), shown[k][1], 0)>>]

\* CorpusLookup.get_distribution_text: the values the text is formatted from.
get_distribution_text(predicate) ==
    IF NotData(lookup(predicate))
    THEN <<"was not found in the corpus", predicate>>
    ELSE <<"in the BCC corpus", predicate, lookup(predicate).total>>
             \o DistributionLines(lookup(predicate),
                                  Get(lookup(predicate), "distribution", <<>>))
-----------------------------------------------------------------------------
(* The inputs.                                                             *)

\* The characters of the sentences of Spec: 对, a pronoun, a degree adverb,
\* a negation word, 问 and 道 (问 and 问道 are predicates), 题 (问题 is a
\* common noun), an affix and a blank.
Alphabet == {"u5bf9", "u6211", "u5f88", "u4e0d", "u95ee", "u9898", "u9053", "u4e86", " "}  \* 对 我 很 不 问 题 道 了

\* The longest sentence of Spec.
MaxLen == 4

\* Every sentence over the alphabet of at most MaxLen characters.
Sentences == UNION {[1..n -> Alphabet] : n \in 0..MaxLen}

\* What jieba.cut may return for the text after 对 of sentence s.
JiebaCuts(s) == IF HasDui(s) THEN Segmentations(Split1(s)[2]) ELSE {<<>>}

\* An entry of the corpus table: the fields the code reads.  The confidence
\* is in hundredths.
Entry(total, dominant_type, confidence) ==
    [total |-> total, dominant_type |-> dominant_type, confidence |-> confidence]

\* A corpus table as predicate_corpus.json may hold it.
SampleCorpus ==
    (<<"u8bf4">> :> Entry(1200, "DA", 95)) @@  \* 说
    (<<"u53d1","u8868">> :> Entry(300, "ABT", 80)) @@  \* 发表
    (<<"u6709","u76ca">> :> Entry(150, "EVAL", 90))  \* 有益

\* The arguments of a lookup or classification call.
Query(predicate, complement, y_phrase, full_sentence) ==
    [predicate |-> predicate, complement |-> complement,
     y_phrase |-> y_phrase, full_sentence |-> full_sentence]

-----------------------------------------------------------------------------
(* The state machine: the module globals and the table are set once; each  *)
(* step is one call of a function of the library.                          *)

\* The orders a dict of these keys can hold them in.
KeyOrders(keys) ==
    {order \in [1..Cardinality(keys) -> keys] :
        \A i, j \in DOMAIN order : order[i] = order[j] => i = j}

\* A corpus file that exists and holds the table, and the path at which no
\* file exists.
File(table) == [exists |-> TRUE, content |-> table]

MissingFile == [exists |-> FALSE, content |-> <<>>]

\* The table of a constructor that reads SampleCorpus when no file exists.
LoadedOrSample(file) == IF file.exists THEN file.content ELSE SampleCorpus

\* CorpusLookup.__init__: the table is empty, and is what json.load reads
\* when the file exists.
Loaded(file) == IF file.exists THEN file.content ELSE <<>>

\* The state after the modules are imported and the CorpusLookup is built
\* from one of the files, with the inputs drawn from the given sets; the
\* table holds its keys in one order, and no request is running.
InitFiles(sentences, files, queries) ==
    /\ JIEBA_AVAILABLE \in BOOLEAN
    /\ sentence \in sentences
    /\ jieba_cut \in (IF JIEBA_AVAILABLE THEN JiebaCuts(sentence) ELSE {<<>>})
    /\ corpus_file \in files
    /\ corpus_data = Loaded(corpus_file)
    /\ corpus_keys = (CHOOSE order \in KeyOrders(DOMAIN corpus_data) : TRUE)
    /\ query \in queries
    /\ op = "import"
    /\ ret = None
    /\ note = None
    /\ first_call = None
    /\ requests = <<>>
    /\ lists = <<>>

\* The same for files that exist and hold the tables.
InitWith(sentences, tables, queries) ==
    InitFiles(sentences, {File(table) : table \in tables}, queries)

\* The arguments app.py's analyse_sentence passes for 他对我说了.
SampleQuery == Query(<<"u8bf4">>, <<"u4e86">>, <<"u6211">>, <<"u4ed6","u5bf9","u6211","u8bf4","u4e86">>)  \* 说 了 我 他对我说了

Init == InitWith(Sentences, {SampleCorpus}, {SampleQuery})

\* The sentences the module's own test prints that the specification lists
\* as scenarios.
ScenarioSentences ==
    {<<"u4e13","u5bb6","u5bf9","u6b64","u53d1","u8868","u610f","u89c1">>,  \* 专家对此发表意见
     <<"u4ed6","u5bf9","u6211","u8bf4","u4e86","u51e0","u53e5","u8bdd">>,  \* 他对我说了几句话
     <<"u6211","u5bf9","u8fd9","u4ef6","u4e8b","u5f88","u62c5","u5fc3">>,  \* 我对这件事很担心
     <<"u5979","u5bf9","u5ba2","u4eba","u5f88","u70ed","u60c5">>,  \* 她对客人很热情
     <<"u8fd0","u52a8","u5bf9","u5065","u5eb7","u6709","u76ca">>}  \* 运动对健康有益

InitScenarios == InitWith(ScenarioSentences, {SampleCorpus}, {SampleQuery})

\* Sentences whose text after 对 is a Y-phrase followed, directly or behind a
\* degree adverb, by 不感兴趣.
NegationYPhrases == {<<"u6b64">>, <<"u4ed6">>, <<"u97f3","u4e50">>}  \* 此 他 音乐

NegationAdverbs == {<<>>, <<"u5f88">>, <<"u975e","u5e38">>}  \* 很 非常

NegationSentences ==
    {<<"u6211","u5bf9">> \o y \o a \o <<"u4e0d","u611f","u5174","u8da3">> :  \* 我对 不感兴趣
        y \in NegationYPhrases, a \in NegationAdverbs}

InitNegation == InitWith(NegationSentences, {SampleCorpus}, {SampleQuery})

\* Corpus tables over three predicates, one of them a key of
\* CONTEXT_OVERRIDES, and the calls made on them.
CorpusPredicates == {<<"u8bf4">>, <<"u53d1","u8868">>, <<"u6709","u76ca">>}  \* 说 发表 有益

\* The entries: two of the types, and one whose dominant_type is the empty
\* string, which is no key of TYPE_NAMES.
CorpusEntries == {Entry(1200, "DA", 95), Entry(150, "EVAL", 90), Entry(10, "", 0)}

CorpusTables == UNION {[D -> CorpusEntries] : D \in SUBSET CorpusPredicates}

QueryPredicates ==
    {<<"u8bf4">>, <<"u53d1","u8868">>, <<"u6709">>, <<"u6709","u76ca">>, <<"u8868","u793a">>, <<"u770b">>}  \* 说 发表 有 有益 表示 看

QueryComplements == {<<>>, <<"u610f","u89c1">>, <<"u76ca">>}  \* 意见 益

QueryYPhrases == {<<"u6b64">>, <<"u5174","u8da3">>}  \* 此 兴趣

QuerySentences == {<<>>, <<"u5bf9","u6b64","u8868","u793a","u5173","u5207">>}  \* 对此表示关切

Queries ==
    {Query(p, c, y, f) : p \in QueryPredicates, c \in QueryComplements,
                         y \in QueryYPhrases, f \in QuerySentences}

InitCorpus == InitWith({<<"u4ed6","u5bf9","u6211","u8bf4">>}, CorpusTables, Queries)  \* 他对我说

\* A call of extract_dui_parts of utils/predicate_extractor.py on the
\* sentence, for the iteration order the call sees and what it computes.
ExtractDuiPartsWith(order, traced) ==
    /\ op' = "extract_dui_parts"
    /\ ret' = traced.parts
    /\ note' = [branch |-> traced.branch, order |-> order]
    /\ first_call' = IF first_call = None
                     THEN [parts |-> traced.parts, order |-> order]
                     ELSE first_call
    /\ UNCHANGED <<JIEBA_AVAILABLE, corpus_file, corpus_data, corpus_keys,
                   sentence, jieba_cut, query, requests, lists>>

ExtractDuiParts ==
    \E order \in IterationOrders : ExtractDuiPartsWith(order, ExtractTraced(sentence, order))

\* A call of extract_dui_parts of the plain-heuristic extractor.
PlainExtractDuiParts ==
    /\ op' = "plain_extract_dui_parts"
    /\ ret' = plain_extract_dui_parts(sentence)
    /\ note' = None
    /\ UNCHANGED <<JIEBA_AVAILABLE, corpus_file, corpus_data, corpus_keys,
                   sentence, jieba_cut, query, first_call, requests, lists>>

\* A call of CorpusLookup.lookup; the table is what the call leaves of it.
Lookup ==
    /\ op' = "lookup"
    /\ ret' = lookup(query.predicate)
    /\ note' = None
    /\ corpus_data' = StoredAfterLookup(query.predicate)
    /\ UNCHANGED <<JIEBA_AVAILABLE, corpus_file, corpus_keys, sentence,
                   jieba_cut, query, first_call, requests, lists>>

\* A call of CorpusLookup.analyse_in_context.
AnalyseInContext ==
    /\ op' = "analyse_in_context"
    /\ ret' = analyse_in_context(query.predicate, query.complement,
                                 query.y_phrase, query.full_sentence)
    /\ note' = None
    /\ corpus_data' = StoredAfterLookup(query.predicate)
    /\ UNCHANGED <<JIEBA_AVAILABLE, corpus_file, corpus_keys, sentence,
                   jieba_cut, query, first_call, requests, lists>>

\* The greatest limit get_similar_predicates is called with.
MaxLimit == 3

\* A call of CorpusLookup.get_similar_predicates, which looks the predicate
\* up first.
GetSimilarPredicates ==
    /\ \E limit \in 0..MaxLimit :
           /\ ret' = get_similar_predicates(query.predicate, limit)
           /\ note' = [limit |-> limit]
    /\ op' = "get_similar_predicates"
    /\ corpus_data' = StoredAfterLookup(query.predicate)
    /\ UNCHANGED <<JIEBA_AVAILABLE, corpus_file, corpus_keys, sentence,
                   jieba_cut, query, first_call, requests, lists>>

\* A call of CorpusLookup.get_distribution_text, which looks the predicate
\* up first.
GetDistributionText ==
    /\ op' = "get_distribution_text"
    /\ ret' = get_distribution_text(query.predicate)
    /\ note' = None
    /\ corpus_data' = StoredAfterLookup(query.predicate)
    /\ UNCHANGED <<JIEBA_AVAILABLE, corpus_file, corpus_keys, sentence,
                   jieba_cut, query, first_call, requests, lists>>

Next ==
    \/ ExtractDuiParts
    \/ PlainExtractDuiParts
    \/ Lookup
    \/ AnalyseInContext

Spec == Init /\ [][Next]_vars

\* The same calls on the scenario sentences, on the 不感兴趣 sentences, and on
\* the corpus tables.
SpecScenarios == InitScenarios /\ [][Next]_vars

SpecNegation == InitNegation /\ [][Next]_vars

SpecCorpus == InitCorpus /\ [][Next]_vars

\* Tables that hold the two predicates whose override rules name Aboutness
\* markers, each absent or present with any dominant type, and the calls
\* made on them: the contexts hold no marker, one marker, two markers of one
\* list (看法 before 意见 in the text, 意见 before 看法 in the list) or markers
\* of several lists.
CascadeTables ==
    UNION {[D -> {Entry(300, type, 80) : type \in TYPE_CODES}] :
              D \in SUBSET {<<"u53d1","u8868">>, <<"u8868","u793a">>}}  \* 发表 表示

CascadeQueries ==
    {Query(p, c, y, f) :
        p \in {<<"u53d1","u8868">>, <<"u8868","u793a">>, <<"u6709">>, <<"u770b">>},  \* 发表 表示 有 看
        c \in {<<>>, <<"u610f","u89c1">>, <<"u770b","u6cd5","u610f","u89c1">>, <<"u76ca">>},  \* 意见 看法意见 益
        y \in QueryYPhrases, f \in QuerySentences}

\* The calls of the methods of one CorpusLookup.
NextCorpus ==
    \/ Lookup
    \/ AnalyseInContext
    \/ GetSimilarPredicates
    \/ GetDistributionText

\* The methods of a CorpusLookup called on the tables of the override
\* predicates.
SpecCascade == InitWith({<<"u5bf9">>}, CascadeTables, CascadeQueries) /\ [][NextCorpus]_vars  \* 对

\* The methods of a CorpusLookup built where no corpus file exists, and of
\* one built from the sample file.
SpecDegraded ==
    InitFiles({<<"u5bf9">>}, {MissingFile, File(SampleCorpus)}, Queries)  \* 对
        /\ [][NextCorpus]_vars

\* Tables of three predicates for get_similar_predicates: each entry has one
\* of two dominant types, a confidence of 0.3, 0.5 or 0.7 and one of two
\* totals, and the dict holds the keys in any order.  The calls ask for 说,
\* which is in the table, and for 讲, which is not.
SimilarTables ==
    [{<<"u8bf4">>, <<"u770b">>, <<"u95ee">>} ->  \* 说 看 问
        {Entry(total, type, confidence) :
            total \in {5, 9}, type \in {"DA", "ABT"}, confidence \in {30, 50, 70}}]

InitSimilar ==
    /\ JIEBA_AVAILABLE \in BOOLEAN
    /\ sentence = <<"u5bf9">>  \* 对
    /\ jieba_cut = <<>>
    /\ corpus_file \in {File(table) : table \in SimilarTables}
    /\ corpus_data = Loaded(corpus_file)
    /\ corpus_keys \in KeyOrders(DOMAIN corpus_data)
    /\ query \in {Query(p, <<>>, <<>>, <<>>) : p \in {<<"u8bf4">>, <<"u8bb2">>}}  \* 说 讲
    /\ op = "import"
    /\ ret = None
    /\ note = None
    /\ first_call = None
    /\ requests = <<>>
    /\ lists = <<>>

SpecSimilar == InitSimilar /\ [][NextCorpus]_vars

\* Sentences X 对 Y A P: Y holds no adverb and no predicate, A is a degree
\* adverb of both extractors, and P is in the lexicon of the one and among
\* the verb starters of the other.
AdverbForms ==
    [X : {<<"u6211">>, <<"u5979">>},  \* 我 她
     Y : {<<"u8fd9","u4ef6","u4e8b">>, <<"u5ba2","u4eba">>, <<"u6b64">>},  \* 这件事 客人 此
     A : {<<"u5f88">>, <<"u975e","u5e38">>},  \* 很 非常
     P : {<<"u62c5","u5fc3">>, <<"u70ed","u60c5">>, <<"u6ee1","u610f">>}]  \* 担心 热情 满意

AdverbSentence(form) == form.X \o <<DUI>> \o form.Y \o form.A \o form.P

SpecAdverb ==
    InitWith({AdverbSentence(form) : form \in AdverbForms}, {SampleCorpus}, {SampleQuery})
        /\ [][Next]_vars

-----------------------------------------------------------------------------
(* The display layer: threads that run analyse_sentence of app.py against  *)
(* the one CorpusLookup get_corpus_lookup caches.  A step of a thread is   *)
(* the code between two accesses to what the threads share: the table and  *)
(* the lists on the heap.                                                  *)

\* The number of threads.
MaxThreads == 2

\* The number of lists the requests build before no further sentence is
\* entered.
MaxLists == 3

\* The text from 对 on of the sentences the threads analyse, and what stands
\* before it: a pronoun, or a word that is an Aboutness marker of 发表.
AppText == <<"u5bf9","u6b64","u53d1","u8868">>  \* 对此发表

AppSentences ==
    {subject \o AppText : subject \in {<<"u6211">>, <<"u610f","u89c1">>, <<"u770b","u6cd5">>}}  \* 我 意见 看法

\* The locals of a thread that has not called analyse_sentence yet.  The
\* table of InitApp is empty, or holds 发表.
Idle(s) ==
    [pc |-> "extract", sentence |-> s, parts |-> None, corpus_data |-> None,
     result |-> None, result_type |-> None]

InitApp ==
    /\ JIEBA_AVAILABLE \in BOOLEAN
    /\ sentence = AppText
    /\ jieba_cut \in (IF JIEBA_AVAILABLE THEN JiebaCuts(sentence) ELSE {<<>>})
    /\ corpus_file \in {File(<<>>), File(<<"u53d1","u8868">> :> Entry(300, "DA", 80))}  \* 发表
    /\ corpus_data = Loaded(corpus_file)
    /\ corpus_keys = (CHOOSE order \in KeyOrders(DOMAIN corpus_data) : TRUE)
    /\ query = SampleQuery
    /\ op = "import"
    /\ ret = None
    /\ note = None
    /\ first_call = None
    /\ requests \in [1..MaxThreads -> {Idle(s) : s \in AppSentences}]
    /\ lists = <<>>

\* The override cascade of the call analyse_sentence makes, on the
\* context_text of its arguments.
RequestCascade(request) ==
    OverrideCascade(request.parts.predicate,
                    request.parts.after_predicate \o request.parts.y_phrase
                        \o request.sentence)

\* A list every call would share: the first list of the heap.
SharedList(heap) == 1

\* The list object the literal [] of a call builds: one the heap did not hold.
NewList(heap) == Len(heap) + 1

\* The heap with the list, empty when it is new.
Allocated(heap, list) == IF list \in DOMAIN heap THEN heap ELSE Append(heap, <<>>)

\* list.append.
Appended(heap, list, entries) == [heap EXCEPT ![list] = heap[list] \o entries]

\* The result dict analyse_in_context builds before it tests the markers.
FreshResult(predicate, found, list) ==
    [predicate |-> predicate,
     corpus_found |-> ~NotData(found),
     corpus_data |-> IF NotData(found) THEN <<>> ELSE found,
     contextual_type |-> "None",
     contextual_reason |-> <<"None">>,
     learning_notes |-> list]

\* The result with the type and the reason of a marker list that matched.
WithOverride(result, cascade) ==
    IF cascade.type = "None"
    THEN result
    ELSE [result EXCEPT !.contextual_type = cascade.type,
                        !.contextual_reason =
                            <<"Contains", cascade.marker, cascade.type>>]

\* The result with the corpus-dominant type, when no type is set and the
\* predicate was found.
WithCorpusDefault(result) ==
    IF result.contextual_type \in {"None", ""} /\ result.corpus_found
    THEN [result EXCEPT !.contextual_type =
                            Get(result.corpus_data, "dominant_type", "None"),
                        !.contextual_reason =
                            <<"Based on corpus",
                              Get(result.corpus_data, "confidence", 0),
                              result.predicate>>]
    ELSE result

\* The test question the last step appends.
TypeNotes(result) ==
    IF result.contextual_type \in DOMAIN TYPE_EXPLANATIONS
    THEN <<TYPE_EXPLANATIONS[result.contextual_type].test>>
    ELSE <<>>

\* analysis.get('contextual_type', 'DA'): the default is for a dict without
\* the key, and the result of analyse_in_context always has the key.
ResultType(analysis) == Get(analysis, "contextual_type", "DA")

\* The values with which a thread goes on.
Goes(t, request) == requests' = [requests EXCEPT ![t] = request]

\* analyse_sentence, lines 210-213: the parts of the sentence.
ExtractStep(t) ==
    /\ requests[t].pc = "extract"
    /\ \E order \in IterationOrders :
           Goes(t, [requests[t] EXCEPT
                        !.pc = "lookup",
                        !.parts = extract_dui_parts(requests[t].sentence, order)])
    /\ UNCHANGED <<JIEBA_AVAILABLE, corpus_file, corpus_data, corpus_keys,
                   sentence, jieba_cut, query, op, ret, note, first_call,
                   lists>>

\* analyse_in_context, line 182: the lookup of the predicate.
LookupStep(t) ==
    /\ requests[t].pc = "lookup"
    /\ Goes(t, [requests[t] EXCEPT
                    !.pc = "result",
                    !.corpus_data = lookup(requests[t].parts.predicate)])
    /\ corpus_data' = StoredAfterLookup(requests[t].parts.predicate)
    /\ UNCHANGED <<JIEBA_AVAILABLE, corpus_file, corpus_keys, sentence,
                   jieba_cut, query, op, ret, note, first_call, lists>>

\* analyse_in_context, lines 185-192: the result dict with its own list.
ResultStep(t) ==
    /\ requests[t].pc = "result"
    /\ Goes(t, [requests[t] EXCEPT
                    !.pc = "overrides",
                    !.result = FreshResult(requests[t].parts.predicate,
                                           requests[t].corpus_data,
                                           NewList(lists))])
    /\ lists' = Allocated(lists, NewList(lists))
    /\ UNCHANGED <<JIEBA_AVAILABLE, corpus_file, corpus_data, corpus_keys,
                   sentence, jieba_cut, query, op, ret, note, first_call>>

\* analyse_in_context, lines 194-222: the override cascade.
OverrideStep(t) ==
    /\ requests[t].pc = "overrides"
    /\ Goes(t, [requests[t] EXCEPT
                    !.pc = "corpus",
                    !.result = WithOverride(requests[t].result, RequestCascade(requests[t]))])
    /\ lists' = Appended(lists, requests[t].result.learning_notes,
                         RequestCascade(requests[t]).notes)
    /\ UNCHANGED <<JIEBA_AVAILABLE, corpus_file, corpus_data, corpus_keys,
                   sentence, jieba_cut, query, op, ret, note, first_call>>

\* analyse_in_context, lines 224-228: the corpus-dominant type.
CorpusStep(t) ==
    /\ requests[t].pc = "corpus"
    /\ Goes(t, [requests[t] EXCEPT
                    !.pc = "notes",
                    !.result = WithCorpusDefault(requests[t].result)])
    /\ UNCHANGED <<JIEBA_AVAILABLE, corpus_file, corpus_data, corpus_keys,
                   sentence, jieba_cut, query, op, ret, note, first_call,
                   lists>>

\* analyse_in_context, lines 230-233: the test question.
NotesStep(t) ==
    /\ requests[t].pc = "notes"
    /\ Goes(t, [requests[t] EXCEPT !.pc = "return"])
    /\ lists' = Appended(lists, requests[t].result.learning_notes,
                         TypeNotes(requests[t].result))
    /\ UNCHANGED <<JIEBA_AVAILABLE, corpus_file, corpus_data, corpus_keys,
                   sentence, jieba_cut, query, op, ret, note, first_call>>

\* analyse_sentence, lines 219-226: the analysis returned and result_type.
ReturnStep(t) ==
    /\ requests[t].pc = "return"
    /\ Goes(t, [requests[t] EXCEPT
                    !.pc = "done",
                    !.result_type = ResultType(requests[t].result)])
    /\ UNCHANGED <<JIEBA_AVAILABLE, corpus_file, corpus_data, corpus_keys,
                   sentence, jieba_cut, query, op, ret, note, first_call,
                   lists>>

\* The next sentence is entered: the thread runs analyse_sentence again.
AgainStep(t) ==
    /\ requests[t].pc = "done"
    /\ Len(lists) < MaxLists
    /\ \E s \in AppSentences : Goes(t, Idle(s))
    /\ UNCHANGED <<JIEBA_AVAILABLE, corpus_file, corpus_data, corpus_keys,
                   sentence, jieba_cut, query, op, ret, note, first_call,
                   lists>>

NextApp ==
    \E t \in 1..MaxThreads :
        \/ ExtractStep(t)
        \/ LookupStep(t)
        \/ ResultStep(t)
        \/ OverrideStep(t)
        \/ CorpusStep(t)
        \/ NotesStep(t)
        \/ ReturnStep(t)
        \/ AgainStep(t)

SpecApp == InitApp /\ [][NextApp]_vars

-----------------------------------------------------------------------------
(* Further inputs.                                                         *)

\* Calls that classify 发表 and 表示 in contexts that hold markers of the
\* DA_markers list of 发表 (微笑, 善意), with and without a marker of its
\* ABT_markers list (意见).
MarkerQueries ==
    {Query(p, c, y, f) :
        p \in {<<"u53d1","u8868">>, <<"u8868","u793a">>},  \* 发表 表示
        c \in {<<>>, <<"u5fae","u7b11">>, <<"u5584","u610f">>, <<"u5fae","u7b11","u610f","u89c1">>},  \* 微笑 善意 微笑意见
        y \in {<<"u4ed6">>, <<"u6b64">>},  \* 他 此
        f \in {<<>>, <<"u5979","u5bf9","u4ed6","u53d1","u8868","u5fae","u7b11">>}}  \* 她对他发表微笑

SpecMarkers == InitWith({<<"u5bf9">>}, CascadeTables, MarkerQueries) /\ [][NextCorpus]_vars  \* 对

\* The longest text the segmenter is called on directly.
SegmentLen == 4

\* The texts after 对 the segmenter is called on: the characters of 没有兴趣,
\* 不感兴趣, 感兴趣, 有兴趣 and 没兴趣 (predicates), 很 (a degree adverb), and
\* 不, 没 and 没有 (negation words).
SegmentTexts ==
    UNION {[1..n -> {"u6ca1", "u6709", "u5174", "u8da3", "u611f", "u4e0d", "u5f88"}] : n \in 0..SegmentLen}  \* 没 有 兴 趣 感 不 很

\* A direct call of _simple_segment on the text after 对 of the sentence,
\* whether or not jieba was imported.
SimpleSegment ==
    /\ op' = "_simple_segment"
    /\ ret' = _simple_segment(Split1(sentence)[2])
    /\ note' = None
    /\ UNCHANGED <<JIEBA_AVAILABLE, corpus_file, corpus_data, corpus_keys,
                   sentence, jieba_cut, query, first_call, requests, lists>>

\* A call of segment_sentence on the text after 对 of the sentence.
SegmentSentence ==
    /\ op' = "segment_sentence"
    /\ ret' = segment_sentence(Split1(sentence)[2])
    /\ note' = None
    /\ UNCHANGED <<JIEBA_AVAILABLE, corpus_file, corpus_data, corpus_keys,
                   sentence, jieba_cut, query, first_call, requests, lists>>

NextSegment ==
    \/ SimpleSegment
    \/ SegmentSentence

SpecSegment ==
    InitWith({<<"u5bf9">> \o text : text \in SegmentTexts}, {SampleCorpus}, {SampleQuery})  \* 对
        /\ [][NextSegment]_vars

\* The sentences 我 对 Y P for every word P of PREDICATE_WORDS behind the
\* Y-phrase 此 or 客人.
LexiconSentences ==
    {<<"u6211", "u5bf9">> \o y \o PREDICATE_WORDS[k] :  \* 我 对
        y \in {<<"u6b64">>, <<"u5ba2","u4eba">>}, k \in DOMAIN PREDICATE_WORDS}  \* 此 客人

SpecLexicon == InitWith(LexiconSentences, {SampleCorpus}, {SampleQuery}) /\ [][Next]_vars

\* The display layer on sentences whose text from 对 on is 对见发表意: the
\* Y-phrase 见 and the complement 意 are the two halves of 意见, an Aboutness
\* marker of 发表, and the text before 对 is a pronoun or is 意见 itself.
InitBoundary ==
    /\ JIEBA_AVAILABLE \in BOOLEAN
    /\ sentence = <<"u5bf9","u89c1","u53d1","u8868","u610f">>  \* 对见发表意
    /\ jieba_cut \in (IF JIEBA_AVAILABLE THEN JiebaCuts(sentence) ELSE {<<>>})
    /\ corpus_file \in {File(<<>>), File(<<"u53d1","u8868">> :> Entry(300, "DA", 80))}  \* 发表
    /\ corpus_data = Loaded(corpus_file)
    /\ corpus_keys = (CHOOSE order \in KeyOrders(DOMAIN corpus_data) : TRUE)
    /\ query = SampleQuery
    /\ op = "import"
    /\ ret = None
    /\ note = None
    /\ first_call = None
    /\ requests \in [1..MaxThreads ->
                        {Idle(subject \o <<"u5bf9","u89c1","u53d1","u8868","u610f">>) :  \* 对见发表意
                            subject \in {<<"u6211">>, <<"u4ed6">>, <<"u610f","u89c1">>}}]  \* 我 他 意见
    /\ lists = <<>>

SpecBoundary == InitBoundary /\ [][NextApp]_vars
-----------------------------------------------------------------------------
(* The properties.                                                         *)

\* The last call was one of the two extract_dui_parts.
Extracted == op \in {"extract_dui_parts", "plain_extract_dui_parts"}

\* The five fields of the record extract_dui_parts returns.
PartsFields ==
    {"before_dui", "y_phrase", "predicate", "after_predicate", "full_after_dui"}

\* C1: for a sentence that contains 对, both extractors return before_dui and
\* full_after_dui with before_dui + 对 + full_after_dui equal to the sentence,
\* and before_dui holds no 对: the split is on the first 对 only.
SplitInvariant ==
    (Extracted /\ HasDui(sentence)) =>
        /\ ret.before_dui \o <<DUI>> \o ret.full_after_dui = sentence
        /\ ~HasDui(ret.before_dui)

\* A sentence with two 对 was split: the later 对 is in full_after_dui.
SplitWitness ==
    /\ Extracted
    /\ ret.before_dui # <<>>
    /\ HasDui(ret.full_after_dui)

\* C2: for a sentence without 对, the empty one included, both extractors
\* return the record whose five fields are all the empty string.
SoftFailure ==
    (Extracted /\ ~HasDui(sentence)) =>
        /\ DOMAIN ret = PartsFields
        /\ \A f \in PartsFields : ret[f] = <<>>

\* A non-empty sentence without 对 was given to an extractor.
SoftFailureWitness ==
    /\ Extracted
    /\ sentence # <<>>
    /\ ~HasDui(sentence)
    /\ ret.before_dui = <<>>

\* The predicate starts with a negation word.
NegationPrefixed(p) == \E n \in NEGATION_WORDS : StartsWith(p, n)

\* y_phrase + predicate + after_predicate of the returned record.
Reconstructed == ret.y_phrase \o ret.predicate \o ret.after_predicate

\* The text has no character that str.strip() removes.
NoWhitespace(s) == \A i \in 1..Len(s) : s[i] \notin WHITESPACE

\* C3 as stated: for a sentence with 对 whose extracted predicate has no
\* negation prefix, y_phrase + predicate + after_predicate is full_after_dui,
\* whichever branch produced the result, in both extractors.
Lossless ==
    (Extracted /\ HasDui(sentence) /\ ~NegationPrefixed(ret.predicate)) =>
        Reconstructed = ret.full_after_dui

\* C3 amended: in the jieba-assisted extractor the three fields give back
\* full_after_dui when the predicate was set by the predicate-token branch,
\* the negation branch or the fallback; when it was set behind a degree
\* adverb they are shorter than full_after_dui (the adverb is in none of
\* them), and when no predicate was found predicate and after_predicate are
\* empty.  In the plain extractor they give back full_after_dui whenever
\* that text has no whitespace.
LosslessOutsideAdverbBranch ==
    /\ (op = "extract_dui_parts" /\ HasDui(sentence)) =>
           /\ note.branch \in {"token", "negation", "fallback"} =>
                  Reconstructed = ret.full_after_dui
           /\ note.branch = "adverb" =>
                  Len(Reconstructed) < Len(ret.full_after_dui)
           /\ note.branch = "none" =>
                  ret.predicate = <<>> /\ ret.after_predicate = <<>>
    /\ (op = "plain_extract_dui_parts" /\ HasDui(sentence)
            /\ NoWhitespace(ret.full_after_dui)) =>
           Reconstructed = ret.full_after_dui

\* A predicate was split off the front of a longer token behind a Y-phrase,
\* and the three fields give back the text.
LosslessWitness ==
    /\ op = "extract_dui_parts"
    /\ note.branch = "token"
    /\ ret.y_phrase # <<>>
    /\ \E k \in 1..Len(jieba_cut) :
           /\ StartsWith(jieba_cut[k], ret.predicate)
           /\ Len(jieba_cut[k]) > Len(ret.predicate)
    /\ ret.after_predicate # <<>>
    /\ Reconstructed = ret.full_after_dui

\* C4: whenever the jieba-assisted extractor reports a non-empty predicate,
\* full_after_dui is y_phrase + g + predicate + after_predicate for some
\* string g: the Y-phrase is a prefix of the text, the predicate a substring
\* behind it, and after_predicate the whole suffix behind the predicate.
PredicateContainment ==
    (op = "extract_dui_parts" /\ ret.predicate # <<>>) =>
        /\ Len(Reconstructed) <= Len(ret.full_after_dui)
        /\ \E g \in {SubSeq(ret.full_after_dui, Len(ret.y_phrase) + 1,
                            Len(ret.y_phrase) + Len(ret.full_after_dui)
                                - Len(Reconstructed))} :
               ret.full_after_dui =
                   ret.y_phrase \o g \o ret.predicate \o ret.after_predicate

\* Behind a degree adverb a predicate was split off the front of a longer
\* token: g is not empty and the rest of the token is in after_predicate.
PredicateContainmentWitness ==
    /\ op = "extract_dui_parts"
    /\ note.branch = "adverb"
    /\ \E k \in 1..Len(jieba_cut) :
           /\ StartsWith(jieba_cut[k], ret.predicate)
           /\ Len(jieba_cut[k]) > Len(ret.predicate)
           /\ StartsWith(ret.after_predicate, From(jieba_cut[k], Len(ret.predicate)))
    /\ Len(Reconstructed) < Len(ret.full_after_dui)

\* The nouns of the common-noun guard.
GuardedNouns == {<<"u95ee","u9898">>, <<"u60c5","u51b5">>, <<"u7ecf","u6d4e","u53d1","u5c55">>}  \* 问题 情况 经济发展

\* Where the predicate starts in full_after_dui, counted from 0.
PredicateStart ==
    Len(ret.full_after_dui) - Len(ret.after_predicate) - Len(ret.predicate)

\* The predicate is the string c taken at position k of full_after_dui, with
\* or without a negation word in front of it.
PredicateIs(c, k) ==
    \/ ret.predicate = c /\ PredicateStart = k
    \/ \E n \in NEGATION_WORDS :
           ret.predicate = n \o c /\ PredicateStart + Len(n) = k

\* C5: when the text after 对 contains 问题, 情况 or 经济发展, the predicate is
\* never the first one or two characters of that occurrence of the noun,
\* with jieba or with the longest-match fallback, also behind a negation
\* character or inside a larger token.
CommonNounGuard ==
    (op = "extract_dui_parts" /\ ret.predicate # <<>>) =>
        \A noun \in GuardedNouns :
            \A k \in 0..(Len(ret.full_after_dui) - Len(noun)) :
                SubSeq(ret.full_after_dui, k + 1, k + Len(noun)) = noun =>
                    /\ ~PredicateIs(UpTo(noun, 1), k)
                    /\ ~PredicateIs(UpTo(noun, 2), k)

\* C6: the predicate the jieba-assisted extract_dui_parts returns is never a
\* member of COMMON_NOUNS, whatever the tokens and whichever branch set it.
NeverCommonNoun ==
    op = "extract_dui_parts" => ret.predicate \notin COMMON_NOUNS

\* The Y-phrase and the predicate the specification gives for the scenario
\* sentences.
Scenario(s, y_phrase, predicate) ==
    [sentence |-> s, y_phrase |-> y_phrase, predicate |-> predicate]

Scenarios ==
    {Scenario(<<"u4e13","u5bb6","u5bf9","u6b64","u53d1","u8868","u610f","u89c1">>, <<"u6b64">>, <<"u53d1","u8868">>),  \* 专家对此发表意见 此 发表
     Scenario(<<"u4ed6","u5bf9","u6211","u8bf4","u4e86","u51e0","u53e5","u8bdd">>, <<"u6211">>, <<"u8bf4">>),  \* 他对我说了几句话 我 说
     Scenario(<<"u6211","u5bf9","u8fd9","u4ef6","u4e8b","u5f88","u62c5","u5fc3">>, <<"u8fd9","u4ef6","u4e8b">>, <<"u62c5","u5fc3">>),  \* 我对这件事很担心 这件事 担心
     Scenario(<<"u5979","u5bf9","u5ba2","u4eba","u5f88","u70ed","u60c5">>, <<"u5ba2","u4eba">>, <<"u70ed","u60c5">>),  \* 她对客人很热情 客人 热情
     Scenario(<<"u8fd0","u52a8","u5bf9","u5065","u5eb7","u6709","u76ca">>, <<"u5065","u5eb7">>, <<"u6709","u76ca">>)}  \* 运动对健康有益 健康 有益

\* C7: without jieba the longest-match fallback and the predicate detection
\* still use the listed predicate words: ALL_PREDICATES is the non-empty set
\* of PREDICATE_WORDS, and the scenario sentences give the predicate and the
\* Y-phrase the specification lists (发表 and 此 for 专家对此发表意见, 有益 for
\* 运动对健康有益).
FallbackKeepsLexicon ==
    (op = "extract_dui_parts" /\ ~JIEBA_AVAILABLE) =>
        /\ ALL_PREDICATES # {}
        /\ ALL_PREDICATES = Range(PREDICATE_WORDS)
        /\ \A sc \in Scenarios :
               sentence = sc.sentence =>
                   /\ ret.predicate = sc.predicate
                   /\ ret.y_phrase = sc.y_phrase

\* C8: when the text after 对 is a Y-phrase followed, directly or behind a
\* degree adverb, by 不感兴趣, the extracted predicate starts with 不.
NegationPreserved ==
    (op = "extract_dui_parts" /\ sentence \in NegationSentences) =>
        /\ ret.predicate # <<>>
        /\ ret.predicate[1] = "u4e0d"  \* 不

\* C9: every call of extract_dui_parts on the sentence returns the record
\* the first call returned, whatever calls were made in between and whatever
\* order the set of predicates is iterated in.
ExtractionDeterministic ==
    op = "extract_dui_parts" => ret = first_call.parts

\* A later call saw another iteration order than the first and split a
\* predicate off a longer token, a predicate whose first character is a
\* predicate too; it returned what the first call returned.
ExtractionDeterministicWitness ==
    /\ op = "extract_dui_parts"
    /\ note.order # first_call.order
    /\ Len(ret.predicate) >= 2
    /\ UpTo(ret.predicate, 1) \in ALL_PREDICATES
    /\ \E k \in 1..Len(jieba_cut) :
           /\ StartsWith(jieba_cut[k], ret.predicate)
           /\ Len(jieba_cut[k]) > Len(ret.predicate)
    /\ ret = first_call.parts

\* The context the classification reads: complement + y_phrase + full_sentence.
ContextText == query.complement \o query.y_phrase \o query.full_sentence

\* C10: for a predicate that is no key of CONTEXT_OVERRIDES and is in the
\* corpus table, analyse_in_context gives the contextual_type that is the
\* dominant_type lookup gives, whatever the complement, the Y-phrase and the
\* sentence.
LookupClassifyConsistency ==
    (/\ op = "analyse_in_context"
     /\ query.predicate \notin DOMAIN CONTEXT_OVERRIDES
     /\ query.predicate \in DOMAIN corpus_data) =>
        ret.contextual_type = lookup(query.predicate).dominant_type

\* A predicate of the table that starts with a key of CONTEXT_OVERRIDES but
\* is none was classified in a context that holds a marker of that key's
\* rules, and got the dominant type of the corpus.
LookupClassifyWitness ==
    /\ op = "analyse_in_context"
    /\ query.predicate \notin DOMAIN CONTEXT_OVERRIDES
    /\ query.predicate \in DOMAIN corpus_data
    /\ \E key \in DOMAIN CONTEXT_OVERRIDES :
           /\ StartsWith(query.predicate, key)
           /\ \E k \in 1..Len(CONTEXT_OVERRIDES[key].ABT_markers) :
                  Contains(ContextText, CONTEXT_OVERRIDES[key].ABT_markers[k])
    /\ ret.corpus_found
    /\ ret.contextual_type = corpus_data[query.predicate].dominant_type


-----------------------------------------------------------------------------
(* The override cascade and the learning notes of analyse_in_context.      *)

\* Whether a marker of the list is a substring of the context of the call.
MarkerPresent(markers) ==
    \E k \in 1..Len(markers) : Contains(ContextText, markers[k])

\* The first marker of the list, in the order of the list, that is a
\* substring of the context.
FirstListed(markers) ==
    markers[CHOOSE k \in 1..Len(markers) :
                /\ Contains(ContextText, markers[k])
                /\ \A j \in 1..(k - 1) : ~Contains(ContextText, markers[j])]

\* How often an entry is in a list.
Count(list, entry) == Cardinality({k \in DOMAIN list : list[k] = entry})

\* The category and the marker list first match wins gives for a rule set.
ExpectedCategory(override) ==
    IF MarkerPresent(override.ABT_markers) THEN "ABT"
    ELSE IF MarkerPresent(override.MS_markers) THEN "MS"
    ELSE IF MarkerPresent(override.EVAL_markers) THEN "EVAL"
    ELSE "None"

ExpectedMarkers(override) ==
    IF MarkerPresent(override.ABT_markers) THEN override.ABT_markers
    ELSE IF MarkerPresent(override.MS_markers) THEN override.MS_markers
    ELSE override.EVAL_markers

RuleSet == CONTEXT_OVERRIDES[query.predicate]

\* C11: for a predicate with an override rule set, the category is ABT if an
\* ABT marker is a substring of the context, else MS if an MS marker is, else
\* EVAL if an EVAL marker is; the reason names the first listed marker of
\* that list that is present, and the explanation of the rule set is in the
\* learning notes exactly once.
CascadeFirstMatch ==
    (/\ op = "analyse_in_context"
     /\ query.predicate \in DOMAIN CONTEXT_OVERRIDES
     /\ ExpectedCategory(RuleSet) # "None") =>
        /\ ret.contextual_type = ExpectedCategory(RuleSet)
        /\ ret.contextual_reason =
               <<"Contains", FirstListed(ExpectedMarkers(RuleSet)),
                 ExpectedCategory(RuleSet)>>
        /\ Count(ret.learning_notes, RuleSet.explanation) = 1

\* 有 was classified in a context that holds 看法 before 意见 and also 兴趣:
\* the category is ABT and the marker named is 意见, the first of the list.
CascadeFirstMatchWitness ==
    /\ op = "analyse_in_context"
    /\ query.predicate = <<"u6709">>  \* 有
    /\ query.complement = <<"u770b","u6cd5","u610f","u89c1">>  \* 看法意见
    /\ query.y_phrase = <<"u5174","u8da3">>  \* 兴趣
    /\ ret.contextual_type = "ABT"
    /\ ret.contextual_reason = <<"Contains", <<"u610f","u89c1">>, "ABT">>  \* 意见
    /\ Count(ret.learning_notes, RuleSet.explanation) = 1

\* C12: for 发表 with 意见 in the context and for 表示 with 关切 in the context
\* the category is ABT whether the predicate is absent from the table or
\* present with any dominant type, and a result whose reason is the corpus
\* is one for which no marker of the predicate's rule set matched.
OverridePreemptsCorpus ==
    op = "analyse_in_context" =>
        /\ (\/ query.predicate = <<"u53d1","u8868">> /\ Contains(ContextText, <<"u610f","u89c1">>)  \* 发表 意见
            \/ query.predicate = <<"u8868","u793a">> /\ Contains(ContextText, <<"u5173","u5207">>))  \* 表示 关切
               => ret.contextual_type = "ABT"
        /\ ret.contextual_reason[1] = "Based on corpus" =>
               \/ query.predicate \notin DOMAIN CONTEXT_OVERRIDES
               \/ ExpectedCategory(RuleSet) = "None"

\* 表示 is in the table with the dominant type DA and was classified in a
\* context that holds 关切: the category is ABT.
OverridePreemptsCorpusWitness ==
    /\ op = "analyse_in_context"
    /\ query.predicate = <<"u8868","u793a">>  \* 表示
    /\ query.predicate \in DOMAIN corpus_data
    /\ corpus_data[query.predicate].dominant_type = "DA"
    /\ Contains(ContextText, <<"u5173","u5207">>)  \* 关切
    /\ ret.corpus_found
    /\ ret.contextual_type = "ABT"

\* The test question of the category the call resolved.
TestQuestion == TYPE_EXPLANATIONS[ret.contextual_type].test

\* C14: whenever analyse_in_context resolves a category, by an override or
\* by the corpus-dominant type, the last entry of learning_notes is the test
\* question of that category, the question is in the notes exactly once, and
\* the only entry before it is the explanation of the override that matched.
QuestionAppendedLast ==
    (op = "analyse_in_context" /\ ret.contextual_type \notin {"None", ""}) =>
        /\ ret.contextual_type \in DOMAIN TYPE_EXPLANATIONS
        /\ ret.learning_notes # <<>>
        /\ ret.learning_notes[Len(ret.learning_notes)] = TestQuestion
        /\ Count(ret.learning_notes, TestQuestion) = 1
        /\ ret.learning_notes =
               (IF ret.contextual_reason[1] = "Contains"
                THEN <<RuleSet.explanation>>
                ELSE <<>>) \o <<TestQuestion>>

\* An override resolved the category: the notes are its explanation and then
\* the test question of the category.
QuestionAppendedLastWitness ==
    /\ op = "analyse_in_context"
    /\ ret.contextual_reason[1] = "Contains"
    /\ ret.contextual_type = "MS"
    /\ ret.learning_notes = <<RuleSet.explanation, TYPE_EXPLANATIONS["MS"].test>>

ADDED_KEYS == {"dominant_name", "dominant_chinese", "explanation"}

\* No entry of the stored table has a key lookup adds.
NoAddedKeys ==
    \A predicate \in DOMAIN corpus_data :
        DOMAIN corpus_data[predicate] \cap ADDED_KEYS = {}

\* A lookup that finds the predicate returns what the entry the file held
\* gives, as the first lookup did.
SameLookup ==
    (op = "lookup" /\ query.predicate \in DOMAIN corpus_file.content) =>
        ret = Annotated(corpus_file.content[query.predicate])

\* C18: no call of lookup, get_distribution_text, analyse_in_context or
\* get_similar_predicates changes the corpus table; the keys lookup adds to
\* its result are never in a stored entry, and every lookup of a predicate
\* returns the value the first one returned.
ReadOnlyTable ==
    /\ [][corpus_data' = corpus_data]_vars
    /\ [](NoAddedKeys /\ SameLookup)

\* lookup found the predicate: the dict it returned has the added keys, and
\* the stored entry is the one the file held.
ReadOnlyTableWitness ==
    /\ op = "lookup"
    /\ query.predicate \in DOMAIN corpus_data
    /\ ADDED_KEYS \subseteq DOMAIN ret
    /\ corpus_data[query.predicate] = corpus_file.content[query.predicate]
    /\ DOMAIN corpus_data[query.predicate] \cap ADDED_KEYS = {}

-----------------------------------------------------------------------------
(* The display layer and its requests.                                     *)

\* The analysis a thread that finished analyse_sentence holds: the result
\* dict with the entries of its learning_notes list.
Returned(t) ==
    [requests[t].result EXCEPT !.learning_notes = lists[requests[t].result.learning_notes]]

\* Whether the call of the thread matched no override marker and did not
\* find the predicate in the table.
Unresolved(t) ==
    /\ requests[t].pc = "done"
    /\ RequestCascade(requests[t]).type = "None"
    /\ requests[t].parts.predicate \notin DOMAIN corpus_data

\* C13: when the predicate matches no override marker and is not in the
\* table, analyse_in_context returns the contextual_type None, and the
\* result_type of analyse_sentence is then 'DA'.
UnresolvedDisplaysDA ==
    \A t \in 1..MaxThreads :
        Unresolved(t) =>
            /\ requests[t].result.contextual_type = "None"
            /\ requests[t].result_type = "DA"

\* What the request of a thread returns when it runs alone: the parts of its
\* sentence and the analysis of these parts.
AloneParts(t) == extract_dui_parts(requests[t].sentence, "listed")

AloneAnalysis(t) ==
    analyse_in_context(AloneParts(t).predicate, AloneParts(t).after_predicate,
                       AloneParts(t).y_phrase, requests[t].sentence)

\* The threads whose call of analyse_in_context has built its result.
WithResult == {t \in 1..MaxThreads : requests[t].result # None}

\* C19: whatever the interleaving of the requests of the threads on the one
\* CorpusLookup, a request that has finished holds the parts and the analysis
\* it gets when it runs alone, and keeps them while the other requests go
\* on; the learning_notes lists of two requests are two lists.
RequestsIndependent ==
    /\ \A t \in 1..MaxThreads :
           requests[t].pc = "done" =>
               /\ requests[t].parts = AloneParts(t)
               /\ Returned(t) = AloneAnalysis(t)
    /\ \A t, u \in WithResult :
           t # u => requests[t].result.learning_notes # requests[u].result.learning_notes

\* One thread has finished a request that an override resolved, while the
\* other, with another sentence, has appended its own notes and not yet
\* returned: the first still holds its two notes.
RequestsIndependentWitness ==
    /\ requests[1].pc = "done"
    /\ requests[2].pc = "return"
    /\ requests[1].sentence # requests[2].sentence
    /\ requests[1].result.contextual_type = "ABT"
    /\ Len(Returned(1).learning_notes) = 2
    /\ Returned(2).contextual_type # "ABT"
    /\ Returned(1) = AloneAnalysis(1)

-----------------------------------------------------------------------------
(* get_similar_predicates.                                                 *)

\* Whether two confidences, in hundredths, are within 0.2 of each other.
WithinFifth(conf, target_conf) == Distance(conf, target_conf) <= 20

\* The other predicates of the table that share the dominant type of
\* predicate p and whose confidence is within 0.2 of p's.
Eligible(p) ==
    {q \in DOMAIN corpus_data :
        /\ q # p
        /\ corpus_data[q].dominant_type = corpus_data[p].dominant_type
        /\ WithinFifth(corpus_data[q].confidence, corpus_data[p].confidence)}

\* The place of a predicate in the insertion order of the table.
KeyIndex(q) == CHOOSE k \in DOMAIN corpus_keys : corpus_keys[k] = q

\* The eligible predicates by descending total, those of equal totals in
\* insertion order.
Ranked(p) ==
    CHOOSE order \in KeyOrders(Eligible(p)) :
        \A i, j \in DOMAIN order :
            i < j =>
                \/ corpus_data[order[i]].total > corpus_data[order[j]].total
                \/ /\ corpus_data[order[i]].total = corpus_data[order[j]].total
                   /\ KeyIndex(order[i]) < KeyIndex(order[j])

\* The tuples get_similar_predicates is to return for p and the limit.
ExpectedSimilar(p, limit) ==
    [k \in 1..(IF limit < Len(Ranked(p)) THEN limit ELSE Len(Ranked(p))) |->
        <<Ranked(p)[k], corpus_data[p].dominant_type, corpus_data[Ranked(p)[k]].total>>]

\* C16: get_similar_predicates(p, limit) returns, for p in the table, the
\* first limit elements of the other predicates that share p's dominant
\* type and whose confidence is within 0.2 of p's, by descending total and
\* with equal totals in insertion order; for p not in the table it returns
\* the empty list.
SimilarPredicatesContract ==
    op = "get_similar_predicates" =>
        ret = IF query.predicate \in DOMAIN corpus_data
              THEN ExpectedSimilar(query.predicate, note.limit)
              ELSE <<>>

-----------------------------------------------------------------------------
(* Termination of the extraction.                                          *)

\* The position of the longest-match segmenter after it emitted the first k
\* tokens.
RECURSIVE PositionAfter(_, _)
PositionAfter(tokens, k) ==
    IF k = 0 THEN 0 ELSE PositionAfter(tokens, k - 1) + Len(tokens[k])

\* The positions grow by at least one character from token to token, and
\* the last is the end of the text.
Advances(tokens, text) ==
    /\ \A k \in 1..Len(tokens) :
           PositionAfter(tokens, k) >= PositionAfter(tokens, k - 1) + 1
    /\ PositionAfter(tokens, Len(tokens)) = Len(text)

\* The scan stopped at a token: the Y-phrase is the tokens before it.
StoppedAtToken(words, y_phrase) ==
    \E i \in 1..Len(words) : y_phrase = Join(UpTo(words, i - 1))

\* Whether the value is a string.
IsString(value) == DOMAIN value = 1..Len(value)

\* C17: for every sentence that holds 对, extract_dui_parts returns a record
\* of the five string fields; the longest-match segmenter advances by at
\* least one character with every token and ends at the end of the text;
\* and the scan either stops at a token, before which the Y-phrase ends, or
\* runs out of tokens, and the fallback then gives the result.
ExtractionTerminates ==
    (op = "extract_dui_parts" /\ HasDui(sentence)) =>
        /\ DOMAIN ret = PartsFields
        /\ \A field \in PartsFields : IsString(ret[field])
        /\ Advances(_simple_segment(ret.full_after_dui), ret.full_after_dui)
        /\ \/ /\ note.branch \in {"adverb", "token", "negation"}
              /\ StoppedAtToken(segment_sentence(ret.full_after_dui), ret.y_phrase)
           \/ note.branch \in {"fallback", "none"}

\* The segmenter cut a text of three characters without jieba, the scan ran
\* out of tokens, and the result is the record of the fallback.
ExtractionTerminatesWitness ==
    /\ op = "extract_dui_parts"
    /\ HasDui(sentence)
    /\ ~JIEBA_AVAILABLE
    /\ Len(ret.full_after_dui) = 3
    /\ Len(_simple_segment(ret.full_after_dui)) = 3
    /\ note.branch \in {"fallback", "none"}
    /\ DOMAIN ret = PartsFields

-----------------------------------------------------------------------------
(* The two extractors on degree-adverb sentences.                          *)

\* Whether the last two tokens jieba returned are the adverb and the
\* predicate.
CutEndsWith(a, p) ==
    /\ Len(jieba_cut) >= 2
    /\ jieba_cut[Len(jieba_cut) - 1] = a
    /\ jieba_cut[Len(jieba_cut)] = p

\* The plain-heuristic extractor returned the Y-phrase and the predicate.
PlainOnAdverb(y, p) ==
    op = "plain_extract_dui_parts" => (ret.y_phrase = y /\ ret.predicate = p)

\* The jieba-assisted extractor returned them: without jieba, and with
\* jieba when the adverb and the predicate are tokens of its cut.
AssistedOnAdverb(y, a, p) ==
    (op = "extract_dui_parts" /\ (JIEBA_AVAILABLE => CutEndsWith(a, p))) =>
        (ret.y_phrase = y /\ ret.predicate = p)

\* C20: for a sentence X 对 Y A P, where Y holds no trigger, A is a degree
\* adverb and P a predicate both extractors know, the plain-heuristic
\* extractor and the jieba-assisted extractor both return the y_phrase Y
\* and the predicate P, without the adverb.
ExtractorsAgreeOnAdverb ==
    \A form \in AdverbForms :
        sentence = AdverbSentence(form) =>
            /\ PlainOnAdverb(form.Y, form.P)
            /\ AssistedOnAdverb(form.Y, form.A, form.P)

-----------------------------------------------------------------------------
(* The DA_markers of 发表.                                                  *)

\* C21: for the predicate 发表, when the context holds a marker of its
\* DA_markers list (微笑, 笑容, 善意) and no marker of its ABT_markers list,
\* the classification is Directed-Action, whatever the corpus-dominant type
\* of 发表 is and whether or not 发表 is in the table.
DirectedActionReading ==
    (/\ op = "analyse_in_context"
     /\ query.predicate = <<"u53d1","u8868">>  \* 发表
     /\ MarkerPresent(RuleSet.DA_markers)
     /\ ~MarkerPresent(RuleSet.ABT_markers)) =>
        ret.contextual_type = "DA"

-----------------------------------------------------------------------------
(* The longest-match segmenter.                                            *)

\* The greedy longest match over a lexicon from position i (counted from 0)
\* on: the longest entry of at most MaxMatch characters that starts at the
\* position, and a single character when no entry starts there.
RECURSIVE LongestMatchFrom(_, _, _)
LongestMatchFrom(text, i, lexicon) ==
    IF i >= Len(text)
    THEN <<>>
    ELSE LET lengths == {length \in 1..MaxMatch :
                            /\ i + length <= Len(text)
                            /\ SubSeq(text, i + 1, i + length) \in lexicon}
             step == IF lengths = {} THEN 1 ELSE Greatest(lengths)
         IN  <<SubSeq(text, i + 1, i + step)>> \o LongestMatchFrom(text, i + step, lexicon)

\* C22: at each scan position the segmenter emits the longest substring of
\* length 4, 3, 2 or 1 starting there that is a lexicon predicate, a degree
\* adverb or a negation word, and advances by its length; it emits a single
\* character only when there is no such substring.  The negation word 没有
\* is therefore one token.
GreedyLongestMatch ==
    op = "_simple_segment" =>
        ret = LongestMatchFrom(Split1(sentence)[2], 0,
                  ALL_PREDICATES \cup DEGREE_ADVERBS \cup NEGATION_WORDS)

\* The same with the lexicon the loop tests: the predicates and the degree
\* adverbs.
LongestMatchOfTested ==
    op = "_simple_segment" =>
        ret = LongestMatchFrom(Split1(sentence)[2], 0, ALL_PREDICATES \cup DEGREE_ADVERBS)

\* C23: the tokens the longest-match segmenter emits, joined in order, are
\* the input; no token is empty; and every token of more than one character
\* is an entry of the lexicon the segmenter tests (a predicate or a degree
\* adverb) of at most 4 characters.
SegmenterOutput ==
    op = "_simple_segment" =>
        /\ Join(ret) = Split1(sentence)[2]
        /\ \A k \in DOMAIN ret :
               /\ ret[k] # <<>>
               /\ Len(ret[k]) > 1 =>
                      /\ ret[k] \in ALL_PREDICATES \cup DEGREE_ADVERBS
                      /\ Len(ret[k]) <= MaxMatch

\* 很没兴趣 was segmented with the predicates loaded: the tokens are the
\* adverb 很 and the predicate 没兴趣.
SegmenterOutputWitness ==
    /\ op = "_simple_segment"
    /\ JIEBA_AVAILABLE
    /\ Split1(sentence)[2] = <<"u5f88", "u6ca1", "u5174", "u8da3">>  \* 很 没 兴 趣
    /\ ret = <<<<"u5f88">>, <<"u6ca1", "u5174", "u8da3">>>>  \* 很 没 兴 趣

-----------------------------------------------------------------------------
(* The triggers of the token scan.                                         *)

\* The tokens the scan of the last extract_dui_parts call ran over.
ScannedWords == segment_sentence(Split1(sentence)[2])

\* Whether the token at place k (counted from 1) holds a predicate.
PredicateBearing(words, k) == _find_predicate_in_word(words[k], note.order) # <<>>

\* Whether the scan stops at place k: the token is a degree adverb, or holds
\* a predicate, or is a negation word before a token that holds a predicate.
IsTriggerAt(words, k) ==
    \/ words[k] \in DEGREE_ADVERBS
    \/ PredicateBearing(words, k)
    \/ /\ words[k] \in NEGATION_WORDS
       /\ k < Len(words)
       /\ PredicateBearing(words, k + 1)

\* Whether the first trigger of the scan is a degree adverb at place i.
AdverbFirstAt(words, i) ==
    /\ words[i] \in DEGREE_ADVERBS
    /\ \A k \in 1..(i - 1) : ~IsTriggerAt(words, k)

\* Whether extract_dui_parts was called last on a sentence with 对.
Scanned == op = "extract_dui_parts" /\ HasDui(sentence)

\* C24: whenever the first trigger the token scan meets is a degree adverb,
\* the y_phrase returned is the concatenation of the tokens before the
\* adverb, whether or not a predicate is found behind the adverb, and also
\* when the adverb is the last token and the fallback runs.
AdverbFixesYPhrase ==
    Scanned =>
        \A i \in DOMAIN ScannedWords :
            AdverbFirstAt(ScannedWords, i) =>
                ret.y_phrase = Join(UpTo(ScannedWords, i - 1))

\* The same for the calls in which a predicate was found behind the adverb.
AdverbFixesYPhraseOfFound ==
    (Scanned /\ note.branch = "adverb") =>
        \A i \in DOMAIN ScannedWords :
            AdverbFirstAt(ScannedWords, i) =>
                ret.y_phrase = Join(UpTo(ScannedWords, i - 1))

-----------------------------------------------------------------------------
(* The scan behind a degree adverb.                                        *)

\* The places behind place i whose token holds a predicate.
BearingAfter(words, i) ==
    {k \in (i + 1)..Len(words) : PredicateBearing(words, k)}

\* The places behind place i at which the loop behind the adverb stops: the
\* token holds a predicate, or is neither a degree adverb nor a negation word.
CandidatesAfter(words, i) ==
    {k \in (i + 1)..Len(words) :
        \/ PredicateBearing(words, k)
        \/ words[k] \notin DEGREE_ADVERBS \cup NEGATION_WORDS}

\* C25: behind a degree adverb that is the first trigger, if any later token
\* is predicate-bearing the predicate is taken from the first such token; a
\* token that is neither predicate-bearing nor an adverb or negation word is
\* the predicate only when no token behind the adverb is predicate-bearing.
PostAdverbPrefersPredicates ==
    Scanned =>
        \A i \in DOMAIN ScannedWords :
            (AdverbFirstAt(ScannedWords, i) /\ BearingAfter(ScannedWords, i) # {}) =>
                ret.predicate =
                    _find_predicate_in_word(
                        ScannedWords[Least(BearingAfter(ScannedWords, i))], note.order)

\* What the loop does: the predicate is taken from the first token behind
\* the adverb that holds a predicate or is no adverb and no negation word.
PostAdverbFirstCandidate ==
    Scanned =>
        \A i \in DOMAIN ScannedWords :
            (AdverbFirstAt(ScannedWords, i) /\ CandidatesAfter(ScannedWords, i) # {}) =>
                ret.predicate =
                    OrElse(_find_predicate_in_word(
                               ScannedWords[Least(CandidatesAfter(ScannedWords, i))],
                               note.order),
                           ScannedWords[Least(CandidatesAfter(ScannedWords, i))])

-----------------------------------------------------------------------------
(* Negation words before the predicate.                                    *)

\* The place of the first trigger of the scan.
FirstTrigger(words) == Least({k \in DOMAIN words : IsTriggerAt(words, k)})

\* The place of the token the predicate of the last call was taken from, by
\* the branch that set it.
TakenFrom(words) ==
    IF note.branch = "token" THEN FirstTrigger(words)
    ELSE IF note.branch = "negation" THEN FirstTrigger(words) + 1
    ELSE IF note.branch = "adverb" THEN Least(CandidatesAfter(words, FirstTrigger(words)))
    ELSE Least(FallbackIndexes(words)) + 1

\* Whether a predicate was taken from a token that stands right behind a
\* negation-word token.
NegationPrecedes(words) ==
    /\ Scanned
    /\ ret.predicate # <<>>
    /\ TakenFrom(words) > 1
    /\ words[TakenFrom(words) - 1] \in NEGATION_WORDS

\* The negation word is kept: the predicate is the negation word followed by
\* what the token gave, and the Y-phrase is the tokens before the negation.
NegationKept(words, place) ==
    /\ ret.predicate =
           words[place - 1]
               \o OrElse(_find_predicate_in_word(words[place], note.order), words[place])
    /\ ret.y_phrase = Join(UpTo(words, place - 2))

\* C26: whenever a negation-word token stands immediately before the token
\* the predicate is taken from, the predicate reported is the negation word
\* followed by the predicate and the Y-phrase ends before the negation, also
\* when a degree adverb stands before the negation (很, 不, 喜欢).
NegationNeverDropped ==
    NegationPrecedes(ScannedWords) => NegationKept(ScannedWords, TakenFrom(ScannedWords))

\* The same for the calls whose predicate the negation branch of the scan
\* set.
NegationKeptByScan ==
    (NegationPrecedes(ScannedWords) /\ note.branch = "negation") =>
        NegationKept(ScannedWords, TakenFrom(ScannedWords))

-----------------------------------------------------------------------------
(* A predicate of the lexicon as the last token.                           *)

\* Whether the tokens of the last call are tokens without a trigger followed
\* by one token that is a word of the predicate lexicon.
EndsInPredicate(words) ==
    /\ Scanned
    /\ words # <<>>
    /\ words[Len(words)] \in ALL_PREDICATES
    /\ \A k \in 1..(Len(words) - 1) : ~IsTriggerAt(words, k)

\* The predicate is the last token and the Y-phrase the tokens before it.
LastTokenReported(words) ==
    /\ ret.predicate = words[Len(words)]
    /\ ret.y_phrase = Join(UpTo(words, Len(words) - 1))

\* C27: for every word P of the predicate lexicon and every Y-phrase whose
\* tokens hold no trigger, the extraction of a sentence whose tokens behind 对
\* are the tokens of Y followed by the one token P returns the predicate P
\* and the y_phrase Y; so for every listed predicate, also for one that is
\* listed as a degree adverb too (好).
KnownPredicateReported ==
    EndsInPredicate(ScannedWords) => LastTokenReported(ScannedWords)

\* The same for the predicates that are not listed as degree adverbs.
KnownPredicateNoAdverbReported ==
    (EndsInPredicate(ScannedWords)
        /\ ScannedWords[Len(ScannedWords)] \notin DEGREE_ADVERBS) =>
            LastTokenReported(ScannedWords)

-----------------------------------------------------------------------------
(* The predicate at the start of a longer token.                           *)

\* Whether the token is no common noun, no predicate itself and does not
\* start with 不, 没 or 未.
PlainToken(word) ==
    /\ word # <<>>
    /\ word \notin COMMON_NOUNS
    /\ word \notin ALL_PREDICATES
    /\ word[1] \notin {"u4e0d", "u6ca1", "u672a"}  \* 不 没 未

\* The predicates the token starts with and is longer than, whose next
\* character in the token is no affix.
PrefixPredicates(word) ==
    {p \in ALL_PREDICATES :
        /\ Len(p) < Len(word)
        /\ SubSeq(word, 1, Len(p)) = p
        /\ word[Len(p) + 1] \notin AFFIXES}

\* The longest of them, and <<>> when there is none.
LongestPrefixPredicate(word) ==
    IF PrefixPredicates(word) = {}
    THEN <<>>
    ELSE CHOOSE p \in PrefixPredicates(word) :
             \A q \in PrefixPredicates(word) : Len(q) <= Len(p)

\* C28: for a token that is no common-noun exclusion, no lexicon predicate
\* itself and not negation-prefixed, _find_predicate_in_word returns the
\* longest lexicon predicate P such that the token starts with P, is longer
\* than P and the character right behind P is not one of 的 地 得 了 着 过, and
\* returns no predicate when there is no such P; when the scan takes the
\* predicate from such a token, the predicate is that P and the rest of the
\* token opens after_predicate.
EmbeddedPredicateRule ==
    Scanned =>
        /\ \A k \in DOMAIN ScannedWords :
               PlainToken(ScannedWords[k]) =>
                   _find_predicate_in_word(ScannedWords[k], note.order)
                       = LongestPrefixPredicate(ScannedWords[k])
        /\ (note.branch = "token" /\ PlainToken(ScannedWords[FirstTrigger(ScannedWords)])) =>
               /\ ret.predicate = LongestPrefixPredicate(ScannedWords[FirstTrigger(ScannedWords)])
               /\ StartsWith(ret.after_predicate,
                      From(ScannedWords[FirstTrigger(ScannedWords)], Len(ret.predicate)))

\* The token 问道了 was scanned: 问道 is followed by the affix 了, so the
\* predicate is 问 and 道了 is after it; and behind it nothing.
EmbeddedPredicateRuleWitness ==
    /\ Scanned
    /\ JIEBA_AVAILABLE
    /\ jieba_cut = <<<<"u95ee", "u9053", "u4e86">>>>  \* 问 道 了
    /\ ret.predicate = <<"u95ee">>  \* 问
    /\ ret.after_predicate = <<"u9053", "u4e86">>  \* 道 了

\* The token 问了 was scanned: 问 is followed by an affix and nothing is
\* found in the token.
EmbeddedPredicateNoneWitness ==
    /\ Scanned
    /\ JIEBA_AVAILABLE
    /\ jieba_cut = <<<<"u6211">>, <<"u95ee", "u4e86">>>>  \* 我 问 了
    /\ _find_predicate_in_word(<<"u95ee", "u4e86">>, note.order) = <<>>  \* 问 了
    /\ note.branch = "fallback"

-----------------------------------------------------------------------------
(* The result when neither the scan nor the fallback finds a predicate.    *)

\* Whether the scan of the last call met no trigger and no token qualifies
\* for the fallback.
NothingFound(words) ==
    /\ Scanned
    /\ \A k \in DOMAIN words : ~IsTriggerAt(words, k)
    /\ FallbackIndexes(words) = {}

\* C29: when the scan finds no trigger and the fallback finds no token of two
\* or more characters that qualifies as a predicate, the result has an empty
\* predicate and a y_phrase that is the first 2 characters of full_after_dui
\* (the whole text when it is shorter than 2 characters).
FinalDefault ==
    NothingFound(ScannedWords) =>
        /\ ret.predicate = <<>>
        /\ ret.y_phrase = UpTo(ret.full_after_dui, 2)

\* What the code returns then: the three fields are empty.
FinalDefaultEmpty ==
    NothingFound(ScannedWords) =>
        /\ ret.predicate = <<>>
        /\ ret.y_phrase = <<>>
        /\ ret.after_predicate = <<>>

-----------------------------------------------------------------------------
(* The context string of the pipeline.                                     *)

\* Whether the request of the thread has finished and a marker of the rule
\* set of its predicate was found in its context string.
MarkerFound(t) ==
    /\ requests[t].pc = "done"
    /\ RequestCascade(requests[t]).type # "None"

\* C30: in the pipeline, where the complement is the after_predicate and the
\* y_phrase the y_phrase extract_dui_parts gives for the sentence and
\* full_sentence is the sentence, an override marker is found in the context
\* string complement ++ y_phrase ++ full_sentence only if it is a substring
\* of the sentence: the concatenation makes no marker that spans a boundary
\* between the parts and is absent from the sentence.
MarkersFromSentence ==
    \A t \in 1..MaxThreads :
        MarkerFound(t) =>
            Contains(requests[t].sentence, RequestCascade(requests[t]).marker)
====
